---------------------------- MODULE Spec2Model ----------------------------
(***************************************************************************)
(* Model of the text-analysis core of FreeSEOToolkit: the keyword-density  *)
(* handlers (api/keyword-density.ts, server/routes.ts) and the heuristic   *)
(* AI-content detector (api/ai-detector, src/unnamed/part_002).            *)
(*                                                                         *)
(* TEXT.  A string is modelled as the sequence of its lexemes.  A lexeme   *)
(* is a maximal run of word characters [A-Za-z0-9_] (a word), a maximal    *)
(* run of whitespace characters, or one single other character.  Every     *)
(* regular expression of the source only looks at word boundaries, at     *)
(* whitespace runs, at literal words and at single punctuation marks, so   *)
(* matching on lexemes is matching on characters.  Len of a lexeme is its  *)
(* number of characters.                                                   *)
(*                                                                         *)
(* NUMBERS.  A JavaScript number is modelled as an exact fraction          *)
(* [num, den]; den = 0 encodes the non-finite values: 0/0 is NaN, 1/0 is   *)
(* Infinity and -1/0 is -Infinity, which is how the source's divisions by  *)
(* an empty list's length produce them.                                    *)
(***************************************************************************)
EXTENDS Integers, Sequences, FiniteSets, TLC

VARIABLES
    handler,    \* which handler served the last request ("none" initially)
    request,    \* the last request: [method, hasContent, content]
    response,   \* the response sent for it: [status, kind, error, report, analysis]
    locals      \* what the handler computed on the way: the frequency Map,
                \* the detector's indicators and its score before clamping

vars == <<handler, request, response, locals>>

---------------------------------------------------------------------------
(* JavaScript numbers                                                      *)

Abs(x) == IF x < 0 THEN -x ELSE x

Sign(x) == IF x < 0 THEN -1 ELSE IF x > 0 THEN 1 ELSE 0

RECURSIVE Gcd(_, _)
Gcd(a, b) == IF b = 0 THEN a ELSE Gcd(b, a % b)

\* The number n/d in lowest terms with a positive denominator; n/0 is NaN
\* (n = 0) or a signed Infinity.
Num(n, d) ==
    IF d = 0 THEN [num |-> Sign(n), den |-> 0]
    ELSE LET g == Gcd(Abs(n), Abs(d))
             s == Sign(d)
         IN  [num |-> (s * n) \div g, den |-> (s * d) \div g]

Int2Num(n) == [num |-> n, den |-> 1]

NaN == [num |-> 0, den |-> 0]
Infinity == [num |-> 1, den |-> 0]

IsNaN(x) == x.den = 0 /\ x.num = 0
IsFinite(x) == x.den # 0
IsInteger(x) == x.den = 1

\* x + y, x - y, x * y, x / y with IEEE-754 results for the non-finite cases.
RAdd(x, y) ==
    IF IsFinite(x) /\ IsFinite(y)
    THEN Num(x.num * y.den + y.num * x.den, x.den * y.den)
    ELSE IF IsNaN(x) \/ IsNaN(y) THEN NaN
    ELSE IF IsFinite(x) THEN y
    ELSE IF IsFinite(y) THEN x
    ELSE IF x.num = y.num THEN x ELSE NaN

RNeg(x) == [num |-> -x.num, den |-> x.den]

RSub(x, y) == RAdd(x, RNeg(y))

RMul(x, y) ==
    IF IsFinite(x) /\ IsFinite(y)
    THEN Num(x.num * y.num, x.den * y.den)
    ELSE IF IsNaN(x) \/ IsNaN(y) \/ x.num = 0 \/ y.num = 0 THEN NaN
    ELSE [num |-> Sign(x.num) * Sign(y.num), den |-> 0]

RDiv(x, y) ==
    IF IsFinite(x) /\ IsFinite(y)
    THEN Num(x.num * y.den, x.den * y.num)
    ELSE IF IsNaN(x) \/ IsNaN(y) THEN NaN
    ELSE IF IsFinite(y) THEN [num |-> x.num * (IF y.num < 0 THEN -1 ELSE 1), den |-> 0]
    ELSE IF IsFinite(x) THEN Int2Num(0)
    ELSE NaN

\* x < y; every comparison with NaN is false.
RLt(x, y) ==
    IF IsNaN(x) \/ IsNaN(y) THEN FALSE
    ELSE IF IsFinite(x) /\ IsFinite(y) THEN x.num * y.den < y.num * x.den
    ELSE IF IsFinite(x) THEN y.num > 0
    ELSE IF IsFinite(y) THEN x.num < 0
    ELSE x.num < y.num

RGt(x, y) == RLt(y, x)
RLe(x, y) == ~IsNaN(x) /\ ~IsNaN(y) /\ ~RLt(y, x)
RGe(x, y) == RLe(y, x)

\* Math.min and Math.max: NaN when an argument is NaN.
MathMin(x, y) == IF IsNaN(x) \/ IsNaN(y) THEN NaN ELSE IF RLt(y, x) THEN y ELSE x
MathMax(x, y) == IF IsNaN(x) \/ IsNaN(y) THEN NaN ELSE IF RLt(x, y) THEN y ELSE x

\* Math.round: the nearest integer, halves up; NaN and Infinity unchanged.
MathRound(x) ==
    IF ~IsFinite(x) THEN x
    ELSE Int2Num((2 * x.num + x.den) \div (2 * x.den))

\* Number(x.toFixed(2)): the nearest multiple of 1/100, halves away from
\* zero; NaN.toFixed(2) is "NaN", which Number reads back as NaN.
ToFixed2(x) ==
    IF ~IsFinite(x) THEN x
    ELSE LET a == Abs(x.num)
             h == (200 * a + x.den) \div (2 * x.den)
         IN  Num(Sign(x.num) * h, 100)

\* x || 0 for a number x: 0 and NaN are falsy.
OrZero(x) == IF IsNaN(x) \/ (IsFinite(x) /\ x.num = 0) THEN Int2Num(0) ELSE x

---------------------------------------------------------------------------
(* Text as lexemes                                                         *)

\* z.string().min(50) and content.trim().length < 50
MinContentLength == 50

RECURSIVE Spaces(_)
Spaces(n) == IF n = 0 THEN "" ELSE " " \o Spaces(n - 1)

\* The whitespace runs of the modelled texts (\s)
Whitespace == {" ", "  ", "\n\n", Spaces(MinContentLength)}

\* The characters of the modelled texts that are neither \w nor \s
Terminators == {".", "!", "?"}
Punctuation == Terminators \cup {",", "(", ")", "'"}

IsWord(l) == l \notin Whitespace /\ l \notin Punctuation

\* String.prototype.toLowerCase on a lexeme: the capitalised words of the
\* modelled vocabulary; every other lexeme is already lower case.
Capitalised ==
    ("I" :> "i") @@ ("Furthermore" :> "furthermore") @@ ("Moreover" :> "moreover")
    @@ ("In" :> "in") @@ ("The" :> "the") @@ ("Well" :> "well")
    @@ ("Honestly" :> "honestly") @@ ("SEO" :> "seo") @@ ("And" :> "and")
    @@ ("Studies" :> "studies") @@ ("However" :> "however")
    @@ ("Therefore" :> "therefore")

LowerCase(l) == IF l \in DOMAIN Capitalised THEN Capitalised[l] ELSE l

ToLowerCase(c) == [i \in 1..Len(c) |-> LowerCase(c[i])]

\* Loops over a text are written as folds over an index range lo..hi that
\* carry the loop's state through the range's two halves, first the left one:
\* the steps run in the order 1, 2, ..., Len(c) of the loop.  The test on
\* the left half's result is always true; it makes the model checker
\* evaluate the left half before it enters the right one.

\* s.length
RECURSIVE CharLenRange(_, _, _)
CharLenRange(c, lo, hi) ==
    IF lo > hi THEN 0
    ELSE IF lo = hi THEN Len(c[lo])
    ELSE LET mid == (lo + hi) \div 2
         IN  CharLenRange(c, lo, mid) + CharLenRange(c, mid + 1, hi)

CharLen(c) == CharLenRange(c, 1, Len(c))

\* The string a piece of lexemes spells
RECURSIVE ConcatRange(_, _, _)
ConcatRange(c, lo, hi) ==
    IF lo > hi THEN ""
    ELSE IF lo = hi THEN c[lo]
    ELSE LET mid == (lo + hi) \div 2
         IN  ConcatRange(c, lo, mid) \o ConcatRange(c, mid + 1, hi)

Concat(c) == ConcatRange(c, 1, Len(c))

\* String.prototype.split(/[seps]+/): the pieces between the maximal runs of
\* separators, with an empty piece before a leading and after a trailing run.
SplitStep(c, seps, i, st) ==
    IF c[i] \in seps
    THEN IF i > 1 /\ c[i - 1] \in seps
         THEN st
         ELSE [cur |-> <<>>, out |-> Append(st.out, st.cur)]
    ELSE [st EXCEPT !.cur = Append(@, c[i])]

RECURSIVE SplitRange(_, _, _, _, _)
SplitRange(c, seps, lo, hi, st) ==
    IF lo > hi THEN st
    ELSE IF lo = hi THEN SplitStep(c, seps, lo, st)
    ELSE LET mid == (lo + hi) \div 2
             left == SplitRange(c, seps, lo, mid, st)
         IN  IF Len(left.out) >= 0 THEN SplitRange(c, seps, mid + 1, hi, left)
             ELSE left

Split(c, seps) ==
    LET st == SplitRange(c, seps, 1, Len(c), [cur |-> <<>>, out |-> <<>>])
    IN  Append(st.out, st.cur)

\* String.prototype.trim
RECURSIVE TrimStart(_)
TrimStart(c) ==
    IF c # <<>> /\ Head(c) \in Whitespace THEN TrimStart(Tail(c)) ELSE c

RECURSIVE TrimEnd(_)
TrimEnd(c) ==
    IF c # <<>> /\ c[Len(c)] \in Whitespace
    THEN TrimEnd(SubSeq(c, 1, Len(c) - 1)) ELSE c

Trim(c) == TrimEnd(TrimStart(c))

\* content.split(/\s+/) as strings
SplitWords(c) ==
    LET pieces == Split(c, Whitespace)
    IN  [i \in 1..Len(pieces) |-> Concat(pieces[i])]

---------------------------------------------------------------------------
(* Keyword density engine                                                  *)

\* .slice(0, 20)
TopKeywords == 20

\* content.toLowerCase().replace(/[^\w\s]/g, ' ').split(/\s+/)
\*        .filter(word => word.length > 2)
ReplaceNonWord(c) ==
    [i \in 1..Len(c) |-> IF c[i] \in Punctuation THEN " " ELSE c[i]]

LongEnough(word) == Len(word) > 2

Tokenize(content) ==
    SelectSeq(SplitWords(ReplaceNonWord(ToLowerCase(content))), LongEnough)

\* The Map<string, number>: its entries in insertion order.
MapIndex(m, word) ==
    IF \E i \in 1..Len(m) : m[i].word = word
    THEN CHOOSE i \in 1..Len(m) : m[i].word = word
    ELSE 0

\* A table that stores 1 for every word it is given, seen before or not
MapSet_Overwrite(m, word) ==
    LET i == MapIndex(m, word)
    IN  IF i = 0 THEN Append(m, [word |-> word, frequency |-> 1])
        ELSE [m EXCEPT ![i].frequency = 1]

MapSet(m, word) ==
    LET i == MapIndex(m, word)
    IN  IF i = 0 THEN Append(m, [word |-> word, frequency |-> 1])
        ELSE [m EXCEPT ![i].frequency = @ + 1]

\* words.forEach(word => wordCount.set(word, (wordCount.get(word) || 0) + 1))
RECURSIVE CountWordsRange(_, _, _, _)
CountWordsRange(words, lo, hi, m) ==
    IF lo > hi THEN m
    ELSE IF lo = hi THEN MapSet(m, words[lo])
    ELSE LET mid == (lo + hi) \div 2
             left == CountWordsRange(words, lo, mid, m)
         IN  IF Len(left) >= 0 THEN CountWordsRange(words, mid + 1, hi, left)
             ELSE left

CountWords(words) == CountWordsRange(words, 1, Len(words), <<>>)

\* The tier of an (unrounded) density
DensityStatus(density) ==
    IF RLt(density, Int2Num(1)) THEN "low"
    ELSE IF RLt(density, Int2Num(2)) THEN "good"
    ELSE IF RLt(density, Int2Num(4)) THEN "optimal"
    ELSE "high"

\* A record that reports the density as computed, with all its decimals
KeywordRecord_Unrounded(entry, totalWords) ==
    LET density == RMul(RDiv(Int2Num(entry.frequency), Int2Num(totalWords)),
                        Int2Num(100))
    IN  [word |-> entry.word, frequency |-> entry.frequency,
         density |-> density, status |-> DensityStatus(density)]

\* .map(([word, frequency]) => {...}): the record of one Map entry
KeywordRecord(entry, totalWords) ==
    LET density == RMul(RDiv(Int2Num(entry.frequency), Int2Num(totalWords)),
                        Int2Num(100))
    IN  [word |-> entry.word, frequency |-> entry.frequency,
         density |-> ToFixed2(density), status |-> DensityStatus(density)]

\* .sort((a, b) => b.frequency - a.frequency): Array.prototype.sort is
\* stable, so records of equal frequency keep their order.
\* A sort that puts a record in front of the records of its frequency
InsertSorted_BeforeEquals(sorted, rec) ==
    LET k == Cardinality({i \in 1..Len(sorted) :
                             rec.frequency - sorted[i].frequency < 0})
    IN  SubSeq(sorted, 1, k) \o <<rec>> \o SubSeq(sorted, k + 1, Len(sorted))

\* rec goes behind every record the comparator does not put it before
InsertSorted(sorted, rec) ==
    LET k == Cardinality({i \in 1..Len(sorted) :
                             rec.frequency - sorted[i].frequency <= 0})
    IN  SubSeq(sorted, 1, k) \o <<rec>> \o SubSeq(sorted, k + 1, Len(sorted))

RECURSIVE SortRange(_, _, _, _)
SortRange(recs, lo, hi, sorted) ==
    IF lo > hi THEN sorted
    ELSE IF lo = hi THEN InsertSorted(sorted, recs[lo])
    ELSE LET mid == (lo + hi) \div 2
             left == SortRange(recs, lo, mid, sorted)
         IN  IF Len(left) >= 0 THEN SortRange(recs, mid + 1, hi, left) ELSE left

\* A keyword list left in the order of the frequency table
SortByFrequency_Unsorted(recs) == recs

SortByFrequency(recs) == SortRange(recs, 1, Len(recs), <<>>)

Slice(s, n) == SubSeq(s, 1, IF Len(s) < n THEN Len(s) ELSE n)

\* A sum that leaves the first record out
RECURSIVE SumDensityFrom_SkipsFirst(_, _)
SumDensityFrom_SkipsFirst(keywords, i) ==
    IF i + 1 > Len(keywords) THEN Int2Num(0)
    ELSE RAdd(keywords[i + 1].density, SumDensityFrom_SkipsFirst(keywords, i + 1))

\* keywords.reduce((sum, k) => sum + k.density, 0)
RECURSIVE SumDensityFrom(_, _)
SumDensityFrom(keywords, i) ==
    IF i > Len(keywords) THEN Int2Num(0)
    ELSE RAdd(keywords[i].density, SumDensityFrom(keywords, i + 1))

\* The body of the keyword-density handlers after validation
AnalyzeKeywordDensity(content) ==
    LET words == Tokenize(content)
        totalWords == Len(words)
        wordCount == CountWords(words)
        keywords ==
            Slice(SortByFrequency(
                      [i \in 1..Len(wordCount) |->
                          KeywordRecord(wordCount[i], totalWords)]),
                  TopKeywords)
        avgDensity ==
            ToFixed2(RDiv(SumDensityFrom(keywords, 1), Int2Num(Len(keywords))))
        topKeywordDensity ==
            IF keywords = <<>> THEN Int2Num(0) ELSE OrZero(keywords[1].density)
    IN  [totalWords |-> totalWords,
         uniqueKeywords |-> Len(wordCount),
         keywords |-> keywords,
         avgDensity |-> avgDensity,
         topKeywordDensity |-> topKeywordDensity]

---------------------------------------------------------------------------
(* Regular expressions on lexemes                                          *)

\* The elements of a pattern.  All word patterns of the source carry the i
\* flag and start at a word boundary.
W(ws) == [t |-> "word", ws |-> ws]      \* \b(w1|w2|...)\b, or a word before \s or '
P(ws) == [t |-> "prefix", ws |-> ws]    \* (w1|w2|...) with no \b after it
S == [t |-> "ws", ws |-> {}]            \* \s+
B == [t |-> "sp", ws |-> {}]            \* one literal space
L(ws) == [t |-> "lit", ws |-> ws]       \* one literal character
AnyWordChar == [t |-> "w", ws |-> {}]   \* \w
S2 == [t |-> "ws2", ws |-> {}]          \* \s{2,}

\* The words of the modelled vocabulary that properly extend another one
ProperPrefixes == {<<"thinking", "think">>, <<"wasted", "was">>}

HasPrefix(word, p) == word = p \/ <<word, p>> \in ProperPrefixes

ElemMatches(e, l) ==
    CASE e.t = "word"   -> IsWord(l) /\ LowerCase(l) \in e.ws
      [] e.t = "prefix" -> IsWord(l) /\ \E p \in e.ws : HasPrefix(LowerCase(l), p)
      [] e.t = "ws"     -> l \in Whitespace
      [] e.t = "sp"     -> l = " "
      [] e.t = "lit"    -> l \in e.ws
      [] e.t = "w"      -> IsWord(l)
      [] e.t = "ws2"    -> l \in Whitespace /\ Len(l) >= 2

\* \bw1 w2 ... wn\b with single literal spaces
Phrase(ws) ==
    [k \in 1..(2 * Len(ws) - 1) |->
        IF k % 2 = 1 THEN W({ws[(k + 1) \div 2]}) ELSE B]

MatchesAt(c, p, phrase) ==
    /\ p + Len(phrase) - 1 <= Len(c)
    /\ \A k \in 1..Len(phrase) : ElemMatches(phrase[k], c[p + k - 1])

\* The number of lexemes the first alternative matching at p takes, or 0
MatchLen(c, p, alts) ==
    IF \E a \in 1..Len(alts) : MatchesAt(c, p, alts[a])
    THEN LET a == CHOOSE a \in 1..Len(alts) :
                      /\ MatchesAt(c, p, alts[a])
                      /\ \A b \in 1..(a - 1) : ~MatchesAt(c, p, alts[b])
         IN  Len(alts[a])
    ELSE 0

\* (content.match(/.../g) || []).length: the matches, left to right, each
\* search starting where the previous match ended.
CountStep(c, alts, p, st) ==
    IF p < st.next THEN st
    ELSE LET n == MatchLen(c, p, alts)
         IN  IF n > 0 THEN [next |-> p + n, count |-> st.count + 1] ELSE st

RECURSIVE CountRange(_, _, _, _, _)
CountRange(c, alts, lo, hi, st) ==
    IF lo > hi THEN st
    ELSE IF lo = hi THEN CountStep(c, alts, lo, st)
    ELSE LET mid == (lo + hi) \div 2
             left == CountRange(c, alts, lo, mid, st)
         IN  IF left.next > 0 THEN CountRange(c, alts, mid + 1, hi, left) ELSE left

CountMatches(c, alts) ==
    CountRange(c, alts, 1, Len(c), [next |-> 1, count |-> 0]).count

\* /\([^)]*\)/g: an opening parenthesis up to the first closing one after it
ParenClose(c, p) ==
    IF \E q \in p..Len(c) : c[q] = ")"
    THEN CHOOSE q \in p..Len(c) :
             c[q] = ")" /\ \A r \in p..(q - 1) : c[r] # ")"
    ELSE 0

ParenStep(c, p, st) ==
    IF p < st.next THEN st
    ELSE IF c[p] = "(" /\ ParenClose(c, p + 1) > 0
         THEN [next |-> ParenClose(c, p + 1) + 1, count |-> st.count + 1]
         ELSE st

RECURSIVE ParenRange(_, _, _, _)
ParenRange(c, lo, hi, st) ==
    IF lo > hi THEN st
    ELSE IF lo = hi THEN ParenStep(c, lo, st)
    ELSE LET mid == (lo + hi) \div 2
             left == ParenRange(c, lo, mid, st)
         IN  IF left.next > 0 THEN ParenRange(c, mid + 1, hi, left) ELSE left

CountParens(c) == ParenRange(c, 1, Len(c), [next |-> 1, count |-> 0]).count

\* patterns.reduce((count, pattern) => count + matches.length, 0)
RECURSIVE SumMatchesFrom(_, _, _)
SumMatchesFrom(c, regexes, i) ==
    IF i > Len(regexes) THEN 0
    ELSE CountMatches(c, regexes[i]) + SumMatchesFrom(c, regexes, i + 1)

SumMatches(c, regexes) == SumMatchesFrom(c, regexes, 1)

---------------------------------------------------------------------------
(* Signal extractors of the AI-content detector                            *)

\* content.split(/[.!?]+/)
SplitSentences(content) == Split(content, Terminators)

\* sentence.trim().split(/\s+/)
SentenceWords(sentence) == SplitWords(Trim(sentence))

detectRepetitivePatterns(content) ==
    LET sentences == SplitSentences(content)
        long == SelectSeq(sentences, LAMBDA s : Len(SentenceWords(s)) > 3)
        start(s) == LET words == SentenceWords(ToLowerCase(s))
                    IN  words[1] \o " " \o words[2] \o " " \o words[3]
        patterns == [i \in 1..Len(long) |-> start(long[i])]
        count(pat) == Cardinality({i \in 1..Len(patterns) : patterns[i] = pat})
    IN  Cardinality({patterns[i] : i \in {j \in 1..Len(patterns) :
                                              count(patterns[j]) > 1}})

formalWords ==
    {"furthermore", "moreover", "consequently", "subsequently", "therefore",
     "however", "nevertheless", "nonetheless", "additionally", "specifically",
     "particularly", "essentially", "ultimately", "fundamentally", "accordingly"}

detectFormalLanguage(content) ==
    LET words == SplitWords(ToLowerCase(content))
        formalCount == Len(SelectSeq(words, LAMBDA w : w \in formalWords))
    IN  RDiv(Int2Num(formalCount), Int2Num(Len(words)))

personalMarkers ==
    << <<  <<W({"i"}), S, P({"think", "believe", "feel", "remember", "learned",
                             "experienced", "noticed", "realized"})>>  >>,
       <<  <<W({"my"}), S, P({"experience", "opinion", "perspective", "approach",
                              "journey", "story"})>>  >>,
       <<  <<W({"when"}), S, W({"i"}), S,
             P({"first", "started", "began", "was", "tried"})>>  >>,
       << Phrase(<<"you", "know">>) >>,
       << Phrase(<<"honestly">>) >>,
       << Phrase(<<"frankly">>) >>,
       << Phrase(<<"between", "you", "and", "me">>) >>,
       << Phrase(<<"in", "my", "opinion">>) >>,
       << Phrase(<<"let", "me", "tell", "you">>) >>,
       <<  <<W({"here"}), L({"'"}), W({"s"}), B, W({"the"}), B, W({"thing"})>>  >> >>

detectPersonalTouches(content) == SumMatches(content, personalMarkers)

imperfections ==
    << <<  <<W({"and"}), S, W({"and"})>>  >>,
       <<  <<W({"that"}), S, W({"that"})>>  >>,
       <<  <<L({"."}), S, AnyWordChar>>, <<L({"."}), AnyWordChar>>  >>,
       <<  <<S, L({","})>>  >>,
       <<  <<S2>>  >> >>

detectGrammarPerfection(content) ==
    LET errors == SumMatches(content, imperfections)
        totalSentences == Len(SplitSentences(content))
    IN  MathMax(Int2Num(0),
                RDiv(Int2Num(totalSentences - errors), Int2Num(totalSentences)))

genericPhrases ==
    << << Phrase(<<"in", "conclusion">>) >>,
       << Phrase(<<"in", "summary">>) >>,
       << Phrase(<<"to", "sum", "up">>) >>,
       << Phrase(<<"first", "and", "foremost">>) >>,
       << Phrase(<<"last", "but", "not", "least">>) >>,
       << Phrase(<<"it", "is", "important", "to", "note">>) >>,
       << Phrase(<<"it", "should", "be", "noted">>) >>,
       << Phrase(<<"it", "is", "worth", "mentioning">>) >>,
       << Phrase(<<"many", "experts", "believe">>) >>,
       << Phrase(<<"studies", "have", "shown">>) >>,
       << Phrase(<<"research", "indicates">>) >>,
       << Phrase(<<"according", "to", "experts">>) >> >>

detectGenericPhrases(content) == SumMatches(content, genericPhrases)

\* Math.min(1, standardDeviation / avgLength).  Math.sqrt has no exact
\* fraction, so the value is carried as its SQUARE, min(1, variance / avg^2);
\* the comparison value < 0.3 is then square < 0.09.
analyzeSentenceVariation(sentences) ==
    LET lengths == [i \in 1..Len(sentences) |-> Len(SentenceWords(sentences[i]))]
        n == Int2Num(Len(lengths))
        sum[i \in 0..Len(lengths)] ==
            IF i = 0 THEN 0 ELSE sum[i - 1] + lengths[i]
        avgLength == RDiv(Int2Num(sum[Len(lengths)]), n)
        sq(i) == LET d == RSub(Int2Num(lengths[i]), avgLength) IN RMul(d, d)
        sumSq[i \in 0..Len(lengths)] ==
            IF i = 0 THEN Int2Num(0) ELSE RAdd(sumSq[i - 1], sq(i))
        variance == RDiv(sumSq[Len(lengths)], n)
    IN  MathMin(Int2Num(1), RDiv(variance, RMul(avgLength, avgLength)))

humanMarkers ==
    << << Phrase(<<"um">>), Phrase(<<"uh">>), Phrase(<<"er">>), Phrase(<<"ah">>) >>,
       << Phrase(<<"well">>), Phrase(<<"you", "know">>), Phrase(<<"i", "mean">>),
          Phrase(<<"like">>), Phrase(<<"actually">>), Phrase(<<"basically">>),
          Phrase(<<"literally">>) >>,
       << Phrase(<<"kinda">>), Phrase(<<"sorta">>), Phrase(<<"gonna">>),
          Phrase(<<"wanna">>) >>,
       << Phrase(<<"trust", "me">>) >>,
       << Phrase(<<"believe", "me">>) >>,
       << Phrase(<<"to", "be", "honest">>) >>,
       << Phrase(<<"real", "talk">>) >>,
       << Phrase(<<"no", "kidding">>) >>,
       << Phrase(<<"for", "real">>) >> >>

detectHumanMarkers(content) ==
    SumMatches(content, humanMarkers) + CountParens(content)

conversationalElements ==
    << <<  <<L({"?"})>>  >>,
       <<  <<L({"!"})>>  >>,
       <<  <<W({"but", "and", "so", "because", "since", "while"}), S>>  >>,
       << Phrase(<<"you">>) >>,
       << Phrase(<<"we">>) >>,
       <<  <<W({"let"}), L({"'"}), W({"s"})>>  >>,
       <<  <<W({"here"}), L({"'"}), W({"s"})>>  >>,
       <<  <<W({"there"}), L({"'"}), W({"s"})>>  >> >>

analyzeConversationalFlow(content) ==
    LET totalElements == SumMatches(content, conversationalElements)
        wordCount == Len(SplitWords(content))
    IN  MathMin(Int2Num(1),
                RDiv(Int2Num(totalElements), RMul(Int2Num(wordCount), Num(1, 10))))

---------------------------------------------------------------------------
(* Composite classifier                                                    *)

\* The bands with their lower bounds excluded
getVerdict_Exclusive(aiScore) ==
    IF RGt(aiScore, Int2Num(80)) THEN "Very likely AI-generated"
    ELSE IF RGt(aiScore, Int2Num(60)) THEN "Possibly AI-generated"
    ELSE IF RGt(aiScore, Int2Num(40)) THEN "Mixed signals - uncertain"
    ELSE IF RGt(aiScore, Int2Num(20)) THEN "Likely human-written"
    ELSE "Very likely human-written"

getVerdict(aiScore) ==
    IF RGe(aiScore, Int2Num(80)) THEN "Very likely AI-generated"
    ELSE IF RGe(aiScore, Int2Num(60)) THEN "Possibly AI-generated"
    ELSE IF RGe(aiScore, Int2Num(40)) THEN "Mixed signals - uncertain"
    ELSE IF RGe(aiScore, Int2Num(20)) THEN "Likely human-written"
    ELSE "Very likely human-written"

\* The confidence with the bounds 20 and 40 excluded
getConfidenceLevel_Exclusive(aiScore) ==
    IF RGe(aiScore, Int2Num(80)) \/ RLt(aiScore, Int2Num(20)) THEN "High"
    ELSE IF RGe(aiScore, Int2Num(60)) \/ RLt(aiScore, Int2Num(40)) THEN "Medium"
    ELSE "Low"

\* A confidence that is Low from above 30 to below 70
getConfidenceLevel_WideLow(aiScore) ==
    IF RGe(aiScore, Int2Num(80)) \/ RLe(aiScore, Int2Num(20)) THEN "High"
    ELSE IF RGe(aiScore, Int2Num(70)) \/ RLe(aiScore, Int2Num(30)) THEN "Medium"
    ELSE "Low"

getConfidenceLevel(aiScore) ==
    IF RGe(aiScore, Int2Num(80)) \/ RLe(aiScore, Int2Num(20)) THEN "High"
    ELSE IF RGe(aiScore, Int2Num(60)) \/ RLe(aiScore, Int2Num(40)) THEN "Medium"
    ELSE "Low"

genericBlock ==
    << "Add more personal anecdotes and experiences to make content more human",
       "Use more conversational language and contractions (I'm, you're, etc.)",
       "Include questions and direct reader engagement",
       "Add some minor grammatical variations and informal expressions",
       "Break up formal sentence structures with shorter, punchier sentences" >>

positiveBlock ==
    << "Great! Your content has strong human characteristics",
       "Consider maintaining this natural, conversational style" >>

\* A list that opens with the positive messages, given up to a score of 60
generateRecommendations_PositiveFirst(aiScore, indicators) ==
    (IF RLe(aiScore, Int2Num(60)) THEN positiveBlock ELSE <<>>)
    \o (IF RGt(aiScore, Int2Num(60)) THEN genericBlock ELSE <<>>)
    \o (IF indicators.repetitivePatterns > 3
        THEN <<"Vary sentence starters and paragraph openings">> ELSE <<>>)
    \o (IF RGt(indicators.formalLanguage, Num(7, 10))
        THEN <<"Replace formal terms with more casual, everyday language">>
        ELSE <<>>)
    \o (IF indicators.lackOfPersonalTouches < 2
        THEN <<"Include more 'I' statements and personal opinions">> ELSE <<>>)
    \o (IF RLt(indicators.conversationalFlow, Num(3, 10))
        THEN <<"Add more questions, exclamations, and direct reader address">>
        ELSE <<>>)

generateRecommendations(aiScore, indicators) ==
    (IF RGt(aiScore, Int2Num(60)) THEN genericBlock ELSE <<>>)
    \o (IF indicators.repetitivePatterns > 3
        THEN <<"Vary sentence starters and paragraph openings">> ELSE <<>>)
    \o (IF RGt(indicators.formalLanguage, Num(7, 10))
        THEN <<"Replace formal terms with more casual, everyday language">>
        ELSE <<>>)
    \o (IF indicators.lackOfPersonalTouches < 2
        THEN <<"Include more 'I' statements and personal opinions">> ELSE <<>>)
    \o (IF RLt(indicators.conversationalFlow, Num(3, 10))
        THEN <<"Add more questions, exclamations, and direct reader address">>
        ELSE <<>>)
    \o (IF RLe(aiScore, Int2Num(30)) THEN positiveBlock ELSE <<>>)

\* The eight signals of a text
Indicators(content, sentences) ==
    [repetitivePatterns |-> detectRepetitivePatterns(content),
     formalLanguage |-> detectFormalLanguage(content),
     lackOfPersonalTouches |-> detectPersonalTouches(content),
     perfectGrammar |-> detectGrammarPerfection(content),
     genericPhrases |-> detectGenericPhrases(content),
     sentenceVariation |-> analyzeSentenceVariation(sentences),
     humanMarkers |-> detectHumanMarkers(content),
     conversationalFlow |-> analyzeConversationalFlow(content)]

\* A score whose gates let the threshold itself through
RawScore_InclusiveGates(indicators) ==
    LET gated ==
            (IF indicators.repetitivePatterns >= 3 THEN 15 ELSE 0)
            + (IF RGe(indicators.formalLanguage, Num(7, 10)) THEN 20 ELSE 0)
            + (IF indicators.lackOfPersonalTouches <= 2 THEN 25 ELSE 0)
            + (IF RGe(indicators.perfectGrammar, Num(95, 100)) THEN 15 ELSE 0)
            + (IF indicators.genericPhrases >= 5 THEN 15 ELSE 0)
            + (IF RLe(indicators.sentenceVariation, Num(9, 100)) THEN 10 ELSE 0)
    IN  RSub(RSub(Int2Num(gated), Int2Num(indicators.humanMarkers * 5)),
             RMul(indicators.conversationalFlow, Int2Num(10)))

\* A score that counts the human markers for the machine
RawScore_MarkersAdded(indicators) ==
    LET gated ==
            (IF indicators.repetitivePatterns > 3 THEN 15 ELSE 0)
            + (IF RGt(indicators.formalLanguage, Num(7, 10)) THEN 20 ELSE 0)
            + (IF indicators.lackOfPersonalTouches < 2 THEN 25 ELSE 0)
            + (IF RGt(indicators.perfectGrammar, Num(95, 100)) THEN 15 ELSE 0)
            + (IF indicators.genericPhrases > 5 THEN 15 ELSE 0)
            + (IF RLt(indicators.sentenceVariation, Num(9, 100)) THEN 10 ELSE 0)
    IN  RSub(RAdd(Int2Num(gated), Int2Num(indicators.humanMarkers * 5)),
             RMul(indicators.conversationalFlow, Int2Num(10)))

\* A score whose personal-touch gate is turned around
RawScore_PersonalInverted(indicators) ==
    LET gated ==
            (IF indicators.repetitivePatterns > 3 THEN 15 ELSE 0)
            + (IF RGt(indicators.formalLanguage, Num(7, 10)) THEN 20 ELSE 0)
            + (IF indicators.lackOfPersonalTouches > 2 THEN 25 ELSE 0)
            + (IF RGt(indicators.perfectGrammar, Num(95, 100)) THEN 15 ELSE 0)
            + (IF indicators.genericPhrases > 5 THEN 15 ELSE 0)
            + (IF RLt(indicators.sentenceVariation, Num(9, 100)) THEN 10 ELSE 0)
    IN  RSub(RSub(Int2Num(gated), Int2Num(indicators.humanMarkers * 5)),
             RMul(indicators.conversationalFlow, Int2Num(10)))

\* A score whose increments add up to 105: 20 for the grammar
RawScore_HeavyGrammar(indicators) ==
    LET gated ==
            (IF indicators.repetitivePatterns > 3 THEN 15 ELSE 0)
            + (IF RGt(indicators.formalLanguage, Num(7, 10)) THEN 20 ELSE 0)
            + (IF indicators.lackOfPersonalTouches < 2 THEN 25 ELSE 0)
            + (IF RGt(indicators.perfectGrammar, Num(95, 100)) THEN 20 ELSE 0)
            + (IF indicators.genericPhrases > 5 THEN 15 ELSE 0)
            + (IF RLt(indicators.sentenceVariation, Num(9, 100)) THEN 10 ELSE 0)
    IN  RSub(RSub(Int2Num(gated), Int2Num(indicators.humanMarkers * 5)),
             RMul(indicators.conversationalFlow, Int2Num(10)))

\* let aiScore = 0; if (...) aiScore += ...; aiScore -= ...
RawScore(indicators) ==
    LET gated ==
            (IF indicators.repetitivePatterns > 3 THEN 15 ELSE 0)
            + (IF RGt(indicators.formalLanguage, Num(7, 10)) THEN 20 ELSE 0)
            + (IF indicators.lackOfPersonalTouches < 2 THEN 25 ELSE 0)
            + (IF RGt(indicators.perfectGrammar, Num(95, 100)) THEN 15 ELSE 0)
            + (IF indicators.genericPhrases > 5 THEN 15 ELSE 0)
            + (IF RLt(indicators.sentenceVariation, Num(9, 100)) THEN 10 ELSE 0)
    IN  RSub(RSub(Int2Num(gated), Int2Num(indicators.humanMarkers * 5)),
             RMul(indicators.conversationalFlow, Int2Num(10)))

\* A clamp that forgets the lower bound
Clamp_NoFloor(aiScore) == MathMin(Int2Num(100), aiScore)

\* aiScore = Math.max(0, Math.min(100, aiScore))
Clamp(aiScore) == MathMax(Int2Num(0), MathMin(Int2Num(100), aiScore))

analyzeContentForAI(content) ==
    LET words == SplitWords(content)
        sentences == SelectSeq(SplitSentences(content), LAMBDA s : Len(Trim(s)) > 0)
        paragraphs == SelectSeq(Split(content, {"\n\n"}), LAMBDA q : Len(Trim(q)) > 0)
        indicators == Indicators(content, sentences)
        aiScore == Clamp(RawScore(indicators))
        humanProbability == RSub(Int2Num(100), aiScore)
    IN  [aiProbability |-> aiScore,
         humanProbability |-> humanProbability,
         verdict |-> getVerdict(aiScore),
         confidence |-> getConfidenceLevel(aiScore),
         wordCount |-> Len(words),
         sentenceCount |-> Len(sentences),
         paragraphCount |-> Len(paragraphs),
         averageWordsPerSentence |->
             MathRound(RDiv(Int2Num(Len(words)), Int2Num(Len(sentences)))),
         repetitivePatterns |-> indicators.repetitivePatterns,
         personalTouch |-> indicators.lackOfPersonalTouches,
         conversationalFlow |-> indicators.conversationalFlow,
         humanMarkers |-> indicators.humanMarkers,
         recommendations |-> generateRecommendations(aiScore, indicators)]

---------------------------------------------------------------------------
(* Requests                                                                *)

\* The number of blocks a modelled text is made of, at most
MaxBlocks == 2

\* words joined by single spaces
Sp(ws) ==
    [k \in 1..(2 * Len(ws) - 1) |-> IF k % 2 = 1 THEN ws[(k + 1) \div 2] ELSE " "]

FormalBlock ==
    Sp(<<"Furthermore", "studies", "have", "shown", "seo", "tools", "help">>)
    \o <<".">>

PersonalBlock ==
    Sp(<<"I", "think", "you", "know", "my", "experience">>)
    \o <<",", " ", "honestly", "!">>

HumanBlock ==
    <<"Well", ",", " ", "um", ",", " ", "like", " ", "(", "trust", " ", "me", ")",
      " ", "it", " ", "kinda", " ", "works", "?">>

ShortBlock ==
    Sp(<<"it", "is", "so", "we", "do", "go", "to", "be", "or", "no">>)

DenseBlock ==
    Sp(<<"seo", "seo", "seo", "tools", "tools", "content", "content", "content",
         "content", "analysis">>)

ManyBlock ==
    Sp(<<"keyword", "ranking", "search", "engine", "traffic", "content",
         "backlink", "domain", "authority", "meta", "title", "description",
         "anchor", "crawl", "index", "sitemap", "robots", "snippet", "organic",
         "mobile", "speed", "schema">>)

BlockPool ==
    <<FormalBlock, PersonalBlock, HumanBlock, ShortBlock, DenseBlock, ManyBlock>>

\* The blocks of a text, joined by single spaces
RECURSIVE JoinBlocks(_, _)
JoinBlocks(choice, i) ==
    IF i > Len(choice) THEN <<>>
    ELSE IF i = Len(choice) THEN BlockPool[choice[i]]
    ELSE BlockPool[choice[i]] \o <<" ">> \o JoinBlocks(choice, i + 1)

BlockTexts ==
    {JoinBlocks(choice, 1) :
        choice \in UNION {[1..n -> 1..Len(BlockPool)] : n \in 1..MaxBlocks}}

\* n times "seo" then m times "tools": n + m tokens
RunText(n, m) == Sp([i \in 1..(n + m) |-> IF i <= n THEN "seo" ELSE "tools"])

RunLengths == {98, 99, 199}

RunTexts == {RunText(n, m) : n \in RunLengths, m \in 1..2}

\* Texts of at least 50 characters with no word and no sentence
BlankText == <<Spaces(MinContentLength)>>
DotsText == [i \in 1..MinContentLength |-> "."]

\* "in summary", with a full stop after it or not, then f times
\* "furthermore", g - 1 times "in summary" and h times "um"
FormalText(f, g, h, stop) ==
    LET rest == [i \in 1..(f + 2 * (g - 1) + h) |->
                    IF i <= f THEN "furthermore"
                    ELSE IF i > f + 2 * (g - 1) THEN "um"
                    ELSE IF (i - f) % 2 = 1 THEN "in" ELSE "summary"]
    IN  <<"in", " ", "summary">> \o (IF stop THEN <<".">> ELSE <<>>)
        \o <<" ">> \o Sp(rest)

\* The shapes <<f, g, h, stop>> of the modelled formal texts: around the
\* thresholds 0.7 of the formal words and 5 of the generic phrases
FormalShapes ==
    {<<29, 6, 0, FALSE>>, <<29, 6, 0, TRUE>>, <<28, 6, 0, TRUE>>,
     <<29, 5, 0, TRUE>>, <<47, 6, 8, FALSE>>, <<47, 6, 8, TRUE>>}

FormalTexts == {FormalText(sh[1], sh[2], sh[3], sh[4]) : sh \in FormalShapes}

\* One sentence, then n - 1 times another, each closed by a full stop and
\* parted from the next by one space
RECURSIVE SentenceText(_, _, _)
SentenceText(first, other, n) ==
    IF n = 1 THEN Sp(first) \o <<".">>
    ELSE SentenceText(first, other, n - 1) \o <<" ">> \o Sp(other) \o <<".">>

\* Sentences of three and of four words that open alike
SentenceTexts ==
    {SentenceText(<<"SEO", "tools", "help">>, <<"seo", "tools", "help">>, 4),
     SentenceText(<<"SEO", "tools", "help", "you">>,
                  <<"seo", "tools", "help", "you">>, 3)}

\* A text with words joined by underscores, which are \w characters
UnderscoreText ==
    Sp(<<"seo_tools", "help", "your", "content", "rank", "with", "long_tail",
         "keyword", "research">>)

Contents ==
    BlockTexts \cup RunTexts \cup FormalTexts \cup SentenceTexts
    \cup {BlankText, DotsText, UnderscoreText}

Methods == {"POST", "GET"}

Requests ==
    {[method |-> m, hasContent |-> TRUE, content |-> c] :
        m \in Methods, c \in Contents}
    \cup {[method |-> m, hasContent |-> FALSE, content |-> <<>>] : m \in Methods}

---------------------------------------------------------------------------
(* Handlers                                                                *)

NoReport ==
    [totalWords |-> 0, uniqueKeywords |-> 0, keywords |-> <<>>,
     avgDensity |-> Int2Num(0), topKeywordDensity |-> Int2Num(0)]

NoAnalysis ==
    [aiProbability |-> Int2Num(0), humanProbability |-> Int2Num(0),
     verdict |-> "", confidence |-> "", wordCount |-> 0, sentenceCount |-> 0,
     paragraphCount |-> 0, averageWordsPerSentence |-> Int2Num(0),
     repetitivePatterns |-> 0, personalTouch |-> 0,
     conversationalFlow |-> Int2Num(0), humanMarkers |-> 0,
     recommendations |-> <<>>]

NoIndicators ==
    [repetitivePatterns |-> 0, formalLanguage |-> Int2Num(0),
     lackOfPersonalTouches |-> 0, perfectGrammar |-> Int2Num(0),
     genericPhrases |-> 0, sentenceVariation |-> Int2Num(0),
     humanMarkers |-> 0, conversationalFlow |-> Int2Num(0)]

NoLocals == [wordCount |-> <<>>, indicators |-> NoIndicators, rawScore |-> Int2Num(0)]

ErrorResponse(status, error) ==
    [status |-> status, kind |-> "error", error |-> error,
     report |-> NoReport, analysis |-> NoAnalysis]

ReportResponse(content) ==
    [status |-> 200, kind |-> "report", error |-> "",
     report |-> AnalyzeKeywordDensity(content), analysis |-> NoAnalysis]

AnalysisResponse(content) ==
    [status |-> 200, kind |-> "analysis", error |-> "",
     report |-> NoReport, analysis |-> analyzeContentForAI(content)]

DensityLocals(content) ==
    [NoLocals EXCEPT !.wordCount = CountWords(Tokenize(content))]

DetectorLocals(content) ==
    LET sentences == SelectSeq(SplitSentences(content), LAMBDA s : Len(Trim(s)) > 0)
        indicators == Indicators(content, sentences)
    IN  [NoLocals EXCEPT !.indicators = indicators, !.rawScore = RawScore(indicators)]

\* z.object({content: z.string().min(50)}).parse(body) succeeds
SchemaAccepts(req) == req.hasContent /\ CharLen(req.content) >= MinContentLength

\* !content || typeof content !== 'string' || content.trim().length < 50
ManualRejects(req) ==
    \/ ~req.hasContent
    \/ CharLen(req.content) = 0
    \/ CharLen(Trim(req.content)) < MinContentLength

\* api/keyword-density.ts, the handler that validates by hand
KeywordDensityManual(req) ==
    /\ handler = "none"
    /\ handler' = "keyword-density-manual"
    /\ request' = req
    /\ IF req.method # "POST"
       THEN response' = ErrorResponse(405, "Method not allowed") /\ locals' = NoLocals
       ELSE IF ManualRejects(req)
       THEN /\ response' = ErrorResponse(400, "Content must be at least 50 characters")
            /\ locals' = NoLocals
       ELSE /\ response' = ReportResponse(req.content)
            /\ locals' = DensityLocals(req.content)

\* api/keyword-density.ts, the handler that validates with the schema: the
\* ZodError of a rejected body is caught by the one catch clause.
KeywordDensitySchema(req) ==
    /\ handler = "none"
    /\ handler' = "keyword-density-schema"
    /\ request' = req
    /\ IF req.method # "POST"
       THEN response' = ErrorResponse(405, "Method not allowed") /\ locals' = NoLocals
       ELSE IF ~SchemaAccepts(req)
       THEN /\ response' = ErrorResponse(500, "Content must be at least 50 words")
            /\ locals' = NoLocals
       ELSE /\ response' = ReportResponse(req.content)
            /\ locals' = DensityLocals(req.content)

\* server/routes.ts, app.post("/api/keyword-density")
KeywordDensityRoute(req) ==
    /\ handler = "none"
    /\ req.method = "POST"
    /\ handler' = "keyword-density-route"
    /\ request' = req
    /\ IF ~SchemaAccepts(req)
       THEN /\ response' = ErrorResponse(500, "Content must be at least 50 words")
            /\ locals' = NoLocals
       ELSE /\ response' = ReportResponse(req.content)
            /\ locals' = DensityLocals(req.content)

\* The AI-content detector's handler
AiDetector(req) ==
    /\ handler = "none"
    /\ handler' = "ai-detector"
    /\ request' = req
    /\ IF req.method # "POST"
       THEN response' = ErrorResponse(405, "Method not allowed") /\ locals' = NoLocals
       ELSE IF ~SchemaAccepts(req)
       THEN response' = ErrorResponse(400, "Invalid input") /\ locals' = NoLocals
       ELSE /\ response' = AnalysisResponse(req.content)
            /\ locals' = DetectorLocals(req.content)

---------------------------------------------------------------------------
(* Strings, character by character                                         *)

\* s[i] as a string: "" beyond the ends of s
Char(s, i) == IF 1 <= i /\ i <= Len(s) THEN SubSeq(s, i, i) ELSE ""

WhiteChars == {" ", "\t", "\n"}
Digits == {"0", "1", "2", "3", "4", "5", "6", "7", "8", "9"}

Min(set) == CHOOSE i \in set : \A j \in set : i <= j
Max(set) == CHOOSE i \in set : \A j \in set : i >= j

\* The k-th smallest element of a set of numbers
Nth(set, k) == CHOOSE i \in set : Cardinality({j \in set : j < i}) = k - 1

\* String.prototype.trim on a string
TrimString(s) ==
    LET inked == {i \in 1..Len(s) : Char(s, i) \notin WhiteChars}
    IN  IF inked = {} THEN "" ELSE SubSeq(s, Min(inked), Max(inked))

UpperToLower ==
    ("A" :> "a") @@ ("B" :> "b") @@ ("C" :> "c") @@ ("D" :> "d") @@ ("E" :> "e")
    @@ ("F" :> "f") @@ ("G" :> "g") @@ ("H" :> "h") @@ ("I" :> "i") @@ ("J" :> "j")
    @@ ("K" :> "k") @@ ("L" :> "l") @@ ("M" :> "m") @@ ("N" :> "n") @@ ("O" :> "o")
    @@ ("P" :> "p") @@ ("Q" :> "q") @@ ("R" :> "r") @@ ("S" :> "s") @@ ("T" :> "t")
    @@ ("U" :> "u") @@ ("V" :> "v") @@ ("W" :> "w") @@ ("X" :> "x") @@ ("Y" :> "y")
    @@ ("Z" :> "z")

\* String.prototype.toLowerCase on a string
LowerString(s) ==
    Concat([i \in 1..Len(s) |->
               IF Char(s, i) \in DOMAIN UpperToLower
               THEN UpperToLower[Char(s, i)] ELSE Char(s, i)])

\* s.split(sep) for a set of separator characters, every single separator
\* splitting: the pieces between consecutive separators.
SplitAt(s, seps) ==
    LET breaks == {0, Len(s) + 1} \cup {i \in 1..Len(s) : Char(s, i) \in seps}
    IN  [k \in 1..(Cardinality(breaks) - 1) |->
            SubSeq(s, Nth(breaks, k) + 1, Nth(breaks, k + 1) - 1)]

\* s.split(/\s+/): the pieces between the maximal runs of whitespace
SplitOnWhitespace(s) ==
    LET white(i) == i >= 1 /\ i <= Len(s) /\ Char(s, i) \in WhiteChars
        starts == {i \in 1..Len(s) : ~white(i) /\ (i = 1 \/ white(i - 1))}
        stop(i) == Min({j \in (i + 1)..(Len(s) + 1) : j = Len(s) + 1 \/ white(j)})
        words == [k \in 1..Cardinality(starts) |->
                     SubSeq(s, Nth(starts, k), stop(Nth(starts, k)) - 1)]
    IN  IF s = "" THEN <<"">>
        ELSE (IF white(1) THEN <<"">> ELSE <<>>) \o words
             \o (IF white(Len(s)) THEN <<"">> ELSE <<>>)

\* parts.join(sep)
RECURSIVE Join(_, _)
Join(parts, sep) ==
    IF parts = <<>> THEN ""
    ELSE IF Len(parts) = 1 THEN parts[1]
    ELSE parts[1] \o sep \o Join(Tail(parts), sep)

\* s.replace(t, ""): the first occurrence of t is removed
RemoveFirst(s, t) ==
    LET at == {i \in 1..(Len(s) - Len(t) + 1) : SubSeq(s, i, i + Len(t) - 1) = t}
    IN  IF t = "" \/ at = {} THEN s
        ELSE SubSeq(s, 1, Min(at) - 1) \o SubSeq(s, Min(at) + Len(t), Len(s))

---------------------------------------------------------------------------
(* The completion service                                                  *)

models == <<"microsoft/DialoGPT-medium", "gpt2", "distilgpt2">>

\* The texts a model's answer carries beside the prompt
Completions ==
    {"", "Great tips inside.", " \n",
     "\n1. Basics\n- Terms\n -Tools\n2. Strategy\nnotes\n3.Wrap up\n",
     "- Orphan\nOutline follows"}

\* What one fetch does: it throws, it answers with a status that is not ok,
\* it answers ok with a body the code cannot read (response.json() rejects,
\* or the result is null, or generated_text is no string), or it answers ok
\* with a generated text, which echoes the prompt or not.
FetchOutcomes ==
    {[t |-> o, echo |-> FALSE, text |-> ""] : o \in {"throws", "non-ok", "unreadable"}}
    \cup {[t |-> "ok", echo |-> e, text |-> c] : e \in BOOLEAN, c \in Completions}

\* generated.replace(prompt, "").trim(), and: return cleanedText || generated
Cleaned(prompt, outcome) ==
    LET generated == (IF outcome.echo THEN prompt ELSE "") \o outcome.text
        cleanedText == TrimString(RemoveFirst(generated, prompt))
    IN  IF cleanedText # "" THEN cleanedText ELSE generated

\* The locals of callHuggingFace and of the handler that awaits it: apiKey
\* tells whether HUGGING_FACE_API_KEY is set, sent lists the models a
\* request went to and responses what each of these requests came to
NoCall ==
    [pc |-> "done", apiKey |-> FALSE, prompt |-> "", next |-> 1, sent |-> <<>>,
     responses |-> <<>>, lastError |-> "", threw |-> FALSE, aiResponse |-> ""]

CallThrew(call, error) ==
    [call EXCEPT !.pc = "done", !.threw = TRUE, !.lastError = error]

CallReturned(call, text) ==
    [call EXCEPT !.pc = "done", !.threw = FALSE, !.aiResponse = text]

\* The error a failed fetch leaves in lastError
FetchError(model, outcome) ==
    IF outcome.t = "non-ok" THEN "Model " \o model \o ": not ok"
    ELSE IF outcome.t = "throws" THEN "fetch failed"
    ELSE "unreadable body"

\* A loop that gives up at the first model that fails
FetchStep_GivesUp(call, outcome) ==
    LET model == models[call.next]
        sent == [call EXCEPT !.sent = Append(@, model),
                             !.responses = Append(@, outcome.t)]
    IN  IF outcome.t = "ok"
        THEN CallReturned(sent, Cleaned(call.prompt, outcome))
        ELSE CallThrew(sent, FetchError(model, outcome))

\* One turn of the loop over the models: the request is sent, and the call
\* returns, goes on to the next model, or throws after the last one.
FetchStep(call, outcome) ==
    LET model == models[call.next]
        sent == [call EXCEPT !.sent = Append(@, model),
                             !.responses = Append(@, outcome.t)]
    IN  IF outcome.t = "ok"
        THEN CallReturned(sent, Cleaned(call.prompt, outcome))
        ELSE IF call.next < Len(models)
        THEN [sent EXCEPT !.next = @ + 1, !.lastError = FetchError(model, outcome)]
        ELSE CallThrew(sent, FetchError(model, outcome))

\* callHuggingFace(prompt) up to its first fetch
CallHuggingFace(prompt, apiKey) ==
    IF ~apiKey
    THEN CallThrew([NoCall EXCEPT !.prompt = prompt],
                   "Hugging Face API key not configured")
    ELSE [NoCall EXCEPT !.pc = "fetch", !.apiKey = TRUE, !.prompt = prompt]

---------------------------------------------------------------------------
(* Meta description generator                                              *)

MaxDescriptionLength == 160
CutDescriptionLength == 157

Titles ==
    {"", "SEO Tips", " Link Building for Busy Teams",
     "How to Grow Organic Search Traffic for Small Business Websites in the Coming Year"}

Audiences == {"", "beginners"}

MetaDescriptionRequests ==
    {[method |-> m, hasTitle |-> TRUE, title |-> t, audience |-> a] :
        m \in Methods, t \in Titles, a \in Audiences}
    \cup {[method |-> m, hasTitle |-> FALSE, title |-> "", audience |-> ""] :
             m \in Methods}

\* metaDescriptionRequestSchema.parse(req.body) succeeds
MetaSchemaAccepts(req) == req.hasTitle /\ Len(req.title) >= 1

AudienceText(audience) == IF audience # "" THEN " for " \o audience ELSE ""

MetaPrompt(title, audience) ==
    "Write a compelling SEO meta description (150-160 characters) for this blog post title: \""
    \o title \o "\"" \o AudienceText(audience)
    \o ". Make it engaging and include relevant keywords."

\* The template of the catch clause
MetaFallback(title, audience) ==
    LET keywords == Join(Slice(SplitOnWhitespace(LowerString(title)), 3), ", ")
    IN  "Discover " \o LowerString(title) \o AudienceText(audience)
        \o ". Learn about " \o keywords
        \o " and get actionable insights. Read our comprehensive guide now."

FinalContent(content) ==
    IF Len(content) > MaxDescriptionLength
    THEN SubSeq(content, 1, CutDescriptionLength) \o "..."
    ELSE content

\* A handler without the inner catch clause: the error of the call reaches
\* the outer one
MetaDescriptionResponse_NoFallback(req, call) ==
    IF call.threw THEN ErrorResponse(500, call.lastError)
    ELSE LET finalContent == FinalContent(TrimString(call.aiResponse))
         IN  [status |-> 200, kind |-> "meta", error |-> "",
              content |-> finalContent, length |-> Len(finalContent)]

\* The handler after the call: the response it sends
MetaDescriptionResponse(req, call) ==
    LET content == IF call.threw THEN MetaFallback(req.title, req.audience)
                   ELSE TrimString(call.aiResponse)
        finalContent == FinalContent(content)
    IN  [status |-> 200, kind |-> "meta", error |-> "",
         content |-> finalContent, length |-> Len(finalContent)]

\* The handler of the meta-description function, up to its first fetch
MetaDescription(req, apiKey) ==
    /\ handler = "none"
    /\ handler' = "meta-description"
    /\ request' = req
    /\ IF req.method # "POST"
       THEN response' = ErrorResponse(405, "Method not allowed") /\ locals' = NoCall
       ELSE IF ~MetaSchemaAccepts(req)
       THEN response' = ErrorResponse(500, "Title is required") /\ locals' = NoCall
       ELSE LET call == CallHuggingFace(MetaPrompt(req.title, req.audience), apiKey)
            IN  /\ locals' = call
                /\ response' = IF call.pc = "done"
                               THEN MetaDescriptionResponse(req, call)
                               ELSE response

---------------------------------------------------------------------------
(* Blog outline generator                                                  *)

Topics == {"", " ", "SEO", "Keyword Research Basics"}

\* The length of the request: "" when the body has none
Lengths == {"short", "medium", "long", "", "epic"}

BlogOutlineRequests ==
    {[method |-> m, hasTopic |-> TRUE, topic |-> t, audience |-> a, length |-> l] :
        m \in Methods, t \in Topics, a \in Audiences, l \in Lengths}
    \cup {[method |-> m, hasTopic |-> FALSE, topic |-> "", audience |-> "",
           length |-> ""] : m \in Methods}

\* !topic || typeof topic !== 'string' || topic.trim().length === 0
TopicRejected(req) ==
    ~req.hasTopic \/ req.topic = "" \/ Len(TrimString(req.topic)) = 0

ValidatedLength(length) ==
    IF length # "" /\ length \in {"short", "medium", "long"} THEN length ELSE "medium"

OutlinePrompt(topic, audience, validatedLength) ==
    LET lengthText == IF validatedLength = "short" THEN "5-7 sections"
                      ELSE IF validatedLength = "medium" THEN "7-10 sections"
                      ELSE "10-15 sections"
    IN  "Create a detailed blog outline for: \"" \o topic \o "\""
        \o AudienceText(audience) \o ". Include " \o lengthText
        \o " with H1, H2, and H3 headings. Structure it as a comprehensive guide with introduction and conclusion."

\* The length of the match of /^\d+\./ in a line, 0 when there is none
NumberedPrefix(line) ==
    LET digits == {n \in 1..Len(line) : \A i \in 1..n : Char(line, i) \in Digits}
    IN  IF digits # {} /\ Char(line, Max(digits) + 1) = "."
        THEN Max(digits) + 1 ELSE 0

\* The line without the first n characters and the whitespace after them
DropPrefix(line, n) ==
    LET inked == {i \in (n + 1)..Len(line) : Char(line, i) \notin WhiteChars}
    IN  IF inked = {} THEN "" ELSE SubSeq(line, Min(inked), Len(line))

\* One turn of the loop over the lines
OutlineLine(st, line) ==
    LET trimmed == TrimString(line)
    IN  IF NumberedPrefix(trimmed) > 0
        THEN [sections |-> IF st.open THEN Append(st.sections, st.currentSection)
                           ELSE st.sections,
              open |-> TRUE,
              currentSection |->
                  [heading |-> DropPrefix(trimmed, NumberedPrefix(trimmed)),
                   level |-> 2, subsections |-> <<>>]]
        ELSE IF Char(trimmed, 1) = "-" /\ st.open
        THEN [st EXCEPT !.currentSection.subsections =
                            Append(@, DropPrefix(trimmed, 1))]
        ELSE st

RECURSIVE OutlineLines(_, _, _)
OutlineLines(lines, i, st) ==
    IF i > Len(lines) THEN st ELSE OutlineLines(lines, i + 1, OutlineLine(st, lines[i]))

\* The sections parsed from the text of the completion
ParseOutline(aiResponse) ==
    LET lines == SelectSeq(SplitAt(aiResponse, {"\n"}), LAMBDA line : TrimString(line) # "")
        st == OutlineLines(lines, 1,
                  [sections |-> <<>>, open |-> FALSE,
                   currentSection |-> [heading |-> "", level |-> 2, subsections |-> <<>>]])
    IN  IF st.open THEN Append(st.sections, st.currentSection) ELSE st.sections

baseOutline(topic) ==
    LET mainKeyword == SplitAt(topic, {" "})[1]
    IN  << [heading |-> "Introduction", level |-> 2,
            subsections |-> <<"What is " \o topic \o "?", "Why this matters",
                              "What you'll learn">>],
           [heading |-> "Understanding " \o mainKeyword, level |-> 2,
            subsections |-> <<"Key concepts", "Important terminology",
                              "Common misconceptions">>],
           [heading |-> "Getting Started with " \o topic, level |-> 2,
            subsections |-> <<"Prerequisites", "Step-by-step approach",
                              "Tools and resources">>],
           [heading |-> "Best Practices", level |-> 2,
            subsections |-> <<"Proven strategies", "Expert tips",
                              "Common mistakes to avoid">>],
           [heading |-> "Advanced Techniques", level |-> 2,
            subsections |-> <<"Pro-level strategies", "Optimization tips",
                              "Measuring success">>],
           [heading |-> "Conclusion", level |-> 2,
            subsections |-> <<"Key takeaways", "Next steps",
                              "Additional resources">>] >>

\* The template outline, cut to the length
TemplateSections(topic, validatedLength) ==
    IF validatedLength = "short" THEN Slice(baseOutline(topic), 4)
    ELSE IF validatedLength = "medium" THEN Slice(baseOutline(topic), 5)
    ELSE baseOutline(topic)

WordsPerMinute == 250

EstimatedWordCount(validatedLength) ==
    IF validatedLength = "short" THEN 1200
    ELSE IF validatedLength = "medium" THEN 2500
    ELSE 4000

\* Math.ceil(a / b) for positive integers
MathCeilDiv(a, b) == (a + b - 1) \div b

\* A response that puts the template behind whatever was parsed
BlogOutlineResponse_Appends(req, call) ==
    LET validatedLength == ValidatedLength(req.length)
        parsed == IF call.threw THEN <<>> ELSE ParseOutline(call.aiResponse)
    IN  [status |-> 200, kind |-> "outline", error |-> "",
         title |-> req.topic,
         sections |-> parsed \o TemplateSections(req.topic, validatedLength),
         estimatedWordCount |-> EstimatedWordCount(validatedLength),
         estimatedReadingTime |->
             MathCeilDiv(EstimatedWordCount(validatedLength), WordsPerMinute)]

\* The handler after the call: the response it sends
BlogOutlineResponse(req, call) ==
    LET validatedLength == ValidatedLength(req.length)
        parsed == IF call.threw THEN <<>> ELSE ParseOutline(call.aiResponse)
        sections == IF Len(parsed) = 0
                    THEN TemplateSections(req.topic, validatedLength)
                    ELSE parsed
    IN  [status |-> 200, kind |-> "outline", error |-> "",
         title |-> req.topic, sections |-> sections,
         estimatedWordCount |-> EstimatedWordCount(validatedLength),
         estimatedReadingTime |->
             MathCeilDiv(EstimatedWordCount(validatedLength), WordsPerMinute)]

\* The handler of the blog-outline function, up to its first fetch
BlogOutline(req, apiKey) ==
    /\ handler = "none"
    /\ handler' = "blog-outline"
    /\ request' = req
    /\ IF req.method # "POST"
       THEN response' = ErrorResponse(405, "Method not allowed") /\ locals' = NoCall
       ELSE IF TopicRejected(req)
       THEN response' = ErrorResponse(400, "Topic is required") /\ locals' = NoCall
       ELSE LET call == CallHuggingFace(
                            OutlinePrompt(req.topic, req.audience,
                                          ValidatedLength(req.length)), apiKey)
            IN  /\ locals' = call
                /\ response' = IF call.pc = "done"
                               THEN BlogOutlineResponse(req, call)
                               ELSE response

\* blogOutlineRequestSchema.parse(req.body) succeeds: a topic of at least
\* one character and a length of the enum, or none
OutlineSchemaAccepts(req) ==
    /\ req.hasTopic
    /\ Len(req.topic) >= 1
    /\ req.length \in {"", "short", "medium", "long"}

\* app.post("/api/blog-outline"), up to its first fetch: the ZodError of a
\* rejected body is caught by the outer catch clause.  The schema gives an
\* absent length the default medium, and the code after the validation is
\* that of the function.
BlogOutlineRoute(req, apiKey) ==
    /\ handler = "none"
    /\ req.method = "POST"
    /\ handler' = "blog-outline-route"
    /\ request' = req
    /\ IF ~OutlineSchemaAccepts(req)
       THEN response' = ErrorResponse(500, "Topic is required") /\ locals' = NoCall
       ELSE LET call == CallHuggingFace(
                            OutlinePrompt(req.topic, req.audience,
                                          ValidatedLength(req.length)), apiKey)
            IN  /\ locals' = call
                /\ response' = IF call.pc = "done"
                               THEN BlogOutlineResponse(req, call)
                               ELSE response

---------------------------------------------------------------------------
(* The handlers that await the completion service                          *)

ServiceHandlers == {"meta-description", "blog-outline", "blog-outline-route"}

\* A handler is waiting for the answer of a model
InFlight == handler \in ServiceHandlers /\ locals.pc = "fetch"

\* The fetch of the awaiting handler resolves, callHuggingFace goes on, and
\* when it returns or throws the handler runs to its response.
Fetch(outcome) ==
    /\ InFlight
    /\ LET call == FetchStep(locals, outcome)
       IN  /\ locals' = call
           /\ response' =
                  IF call.pc # "done" THEN response
                  ELSE IF handler = "meta-description"
                  THEN MetaDescriptionResponse(request, call)
                  ELSE BlogOutlineResponse(request, call)
    /\ UNCHANGED <<handler, request>>

NoRequest == [method |-> "", hasContent |-> FALSE, content |-> <<>>]

Init ==
    /\ handler = "none"
    /\ request = NoRequest
    /\ response = ErrorResponse(0, "")
    /\ locals = NoLocals

\* The response is sent and the handler returns: nothing of the request is
\* kept, and the next request finds the state of the first one.
Return ==
    /\ handler # "none"
    /\ ~InFlight
    /\ handler' = "none"
    /\ request' = NoRequest
    /\ response' = ErrorResponse(0, "")
    /\ locals' = NoLocals

Next ==
    \/ \E req \in Requests :
        \/ KeywordDensityManual(req)
        \/ KeywordDensitySchema(req)
        \/ KeywordDensityRoute(req)
        \/ AiDetector(req)
    \/ \E req \in MetaDescriptionRequests, apiKey \in BOOLEAN :
        MetaDescription(req, apiKey)
    \/ \E req \in BlogOutlineRequests, apiKey \in BOOLEAN :
        BlogOutline(req, apiKey)
    \/ \E req \in BlogOutlineRequests, apiKey \in BOOLEAN :
        BlogOutlineRoute(req, apiKey)
    \/ \E outcome \in FetchOutcomes : Fetch(outcome)
    \/ Return

Spec == Init /\ [][Next]_vars

---------------------------------------------------------------------------
(* The classifier's two maps on their own: getVerdict and                  *)
(* getConfidenceLevel applied to every score k / ScoreSteps of [0, 100],   *)
(* next to the detector's handler, which applies them to its own scores    *)

ScoreSteps == 2

Scores == {Num(k, ScoreSteps) : k \in 0..(100 * ScoreSteps)}

Classify(aiScore) ==
    /\ handler = "none"
    /\ handler' = "classify"
    /\ request' = NoRequest
    /\ response' =
           [status |-> 0, kind |-> "verdict", error |-> "", report |-> NoReport,
            analysis |-> [NoAnalysis EXCEPT
                             !.aiProbability = aiScore,
                             !.humanProbability = RSub(Int2Num(100), aiScore),
                             !.verdict = getVerdict(aiScore),
                             !.confidence = getConfidenceLevel(aiScore)]]
    /\ locals' = NoLocals

ScoreNext ==
    \/ \E aiScore \in Scores : Classify(aiScore)
    \/ \E req \in Requests : AiDetector(req)
    \/ Return

ScoreSpec == Init /\ [][ScoreNext]_vars

---------------------------------------------------------------------------
(* The score on its own: lines 44-60 and generateRecommendations applied   *)
(* to indicators on and beside the thresholds of the gates, next to the    *)
(* detector's handler, which applies them to the indicators of its texts.  *)
(* sentenceVariation holds the square of the code's value, so its          *)
(* threshold 0.3 is 9/100 here.                                            *)

\* The largest number of human markers of the indicators drawn
MaxMarkers == 2

IndicatorGrid ==
    [repetitivePatterns : {3, 4},
     formalLanguage : {Num(7, 10), Num(71, 100)},
     lackOfPersonalTouches : {1, 2},
     perfectGrammar : {Num(95, 100), Num(24, 25)},
     genericPhrases : {5, 6},
     sentenceVariation : {Num(2, 25), Num(9, 100)},
     humanMarkers : 0..MaxMarkers,
     conversationalFlow : {Int2Num(0), Num(1, 4), Int2Num(1)}]

Score(indicators) ==
    /\ handler = "none"
    /\ handler' = "score"
    /\ request' = NoRequest
    /\ LET aiScore == Clamp(RawScore(indicators))
       IN  response' =
               [status |-> 0, kind |-> "score", error |-> "", report |-> NoReport,
                analysis |-> [NoAnalysis EXCEPT
                    !.aiProbability = aiScore,
                    !.humanProbability = RSub(Int2Num(100), aiScore),
                    !.verdict = getVerdict(aiScore),
                    !.confidence = getConfidenceLevel(aiScore),
                    !.recommendations = generateRecommendations(aiScore, indicators)]]
    /\ locals' = [NoLocals EXCEPT !.indicators = indicators,
                                  !.rawScore = RawScore(indicators)]

GateNext ==
    \/ \E indicators \in IndicatorGrid : Score(indicators)
    \/ \E req \in Requests : AiDetector(req)
    \/ Return

GateSpec == Init /\ [][GateNext]_vars

---------------------------------------------------------------------------
(* Claims                                                                  *)

report == response.report
analysis == response.analysis
Reported == response.kind = "report"
Analysed == response.kind = "analysis"
Classified == response.kind = "verdict"

\* C1: a content accepted by the boundary whose token stream is empty gets
\* the all-zero report: totalWords, uniqueKeywords, avgDensity and
\* topKeywordDensity are 0 and keywords is empty; avgDensity is not NaN.
C1_EmptyTokenStreamAllZero ==
    (Reported /\ Tokenize(request.content) = <<>>)
        => /\ report.totalWords = 0
           /\ report.uniqueKeywords = 0
           /\ report.keywords = <<>>
           /\ report.avgDensity = Int2Num(0)
           /\ report.topKeywordDensity = Int2Num(0)

\* C2: for every analysed text, 0 <= aiProbability <= 100 and
\* humanProbability + aiProbability = 100.
C2_ProbabilityBounds ==
    Analysed
        => /\ RLe(Int2Num(0), analysis.aiProbability)
           /\ RLe(analysis.aiProbability, Int2Num(100))
           /\ RAdd(analysis.humanProbability, analysis.aiProbability) = Int2Num(100)

\* C2 witness: a text whose score before clamping is negative was analysed.
C2_ClampedBelow ==
    /\ Analysed
    /\ RLt(locals.rawScore, Int2Num(0))
    /\ analysis.aiProbability = Int2Num(0)

\* C3: aiProbability and humanProbability of every analysed text are
\* integers.
C3_IntegerProbabilities ==
    Analysed => IsInteger(analysis.aiProbability) /\ IsInteger(analysis.humanProbability)

C5_ConfidenceBands ==
    (Classified \/ Analysed) =>
        LET ai == analysis.aiProbability
            conf == analysis.confidence
            high == RGe(ai, Int2Num(80)) \/ RLe(ai, Int2Num(20))
            medium == ~high /\ (RGe(ai, Int2Num(60)) \/ RLe(ai, Int2Num(40)))
        IN  /\ (conf = "High") <=> high
            /\ (conf = "Medium") <=> medium
            /\ (conf = "Low") <=> (RGt(ai, Int2Num(40)) /\ RLt(ai, Int2Num(60)))
            /\ conf \in {"High", "Medium", "Low"}

\* C5 witness: the score 20, where High ends, was classified as High.
C5_BoundaryConfidence ==
    /\ Classified
    /\ analysis.aiProbability = Int2Num(20)
    /\ analysis.confidence = "High"

\* The tier the density thresholds give a density value
TierOf(density) ==
    IF RLt(density, Int2Num(1)) THEN "low"
    ELSE IF RLt(density, Int2Num(2)) THEN "good"
    ELSE IF RLt(density, Int2Num(4)) THEN "optimal"
    ELSE "high"

\* C6: in every keyword record the status is the tier of the record's
\* reported density: low below 1, good from 1, optimal from 2, high from 4.
C6_StatusOfReportedDensity ==
    Reported =>
        \A k \in 1..Len(report.keywords) :
            report.keywords[k].status = TierOf(report.keywords[k].density)

RECURSIVE SumFrequencies(_, _)
SumFrequencies(m, i) ==
    IF i > Len(m) THEN 0 ELSE m[i].frequency + SumFrequencies(m, i + 1)

TokenSet(content) ==
    LET words == Tokenize(content) IN {words[i] : i \in 1..Len(words)}

\* C7: the frequencies of the frequency table sum to totalWords, the number
\* of tokens that passed the length filter, and uniqueKeywords is the
\* number of distinct tokens, also beyond 20.
C7_FrequenciesSumToTotal ==
    Reported
        => /\ SumFrequencies(locals.wordCount, 1) = report.totalWords
           /\ report.totalWords = Len(Tokenize(request.content))
           /\ report.uniqueKeywords = Cardinality(TokenSet(request.content))
           /\ \A i \in 1..Len(locals.wordCount) : locals.wordCount[i].frequency >= 1

\* C7 witness: a report on a text with more than 20 distinct tokens, some
\* of them repeated.
C7_ManyDistinctTokens ==
    /\ Reported
    /\ report.uniqueKeywords > TopKeywords
    /\ report.totalWords > report.uniqueKeywords

\* The entries of the frequency table that are not in the keyword list
Omitted ==
    {i \in 1..Len(locals.wordCount) :
        \A k \in 1..Len(report.keywords) :
            report.keywords[k].word # locals.wordCount[i].word}

\* C8: the keyword list has at most 20 records, its frequencies do not
\* increase from first to last, and no omitted token is more frequent than
\* the last record.
C8_TopTwentySorted ==
    Reported =>
        LET kw == report.keywords
        IN  /\ Len(kw) <= 20
            /\ \A i, j \in 1..Len(kw) : i < j => kw[i].frequency >= kw[j].frequency
            /\ \A i \in Omitted :
                   /\ kw # <<>>
                   /\ locals.wordCount[i].frequency <= kw[Len(kw)].frequency

\* C8 witness: a report that omits tokens and whose kept frequencies differ.
C8_CutWithOmissions ==
    /\ Reported
    /\ Omitted # {}
    /\ Len(report.keywords) = TopKeywords
    /\ report.keywords[1].frequency > report.keywords[TopKeywords].frequency

\* C10: a content of at least 50 characters with no sentence gets a
\* well-formed analysis: every number in it is finite, the sentence-length
\* variation is 0 and averageWordsPerSentence is finite.
C10_ZeroSentencesWellFormed ==
    (Analysed /\ analysis.sentenceCount = 0)
        => /\ IsFinite(analysis.aiProbability)
           /\ IsFinite(analysis.humanProbability)
           /\ IsFinite(analysis.conversationalFlow)
           /\ IsFinite(analysis.averageWordsPerSentence)
           /\ locals.indicators.sentenceVariation = Int2Num(0)


\* The handlers of the keyword-density engine and of the detector
AnalysisHandlers ==
    {"keyword-density-manual", "keyword-density-schema", "keyword-density-route",
     "ai-detector"}

\* C11: a keyword-density or detector request whose content is shorter than
\* 50 characters is answered with status 400 and no analysis; no validation
\* failure is answered with 500; status 200 is sent only after the analysis
\* of a content of at least 50 characters.
C11_ShortContentIs400 ==
    (handler \in AnalysisHandlers /\ request.method = "POST")
        => /\ (~request.hasContent \/ CharLen(request.content) < MinContentLength)
                  => /\ response.status = 400
                     /\ response.kind = "error"
                     /\ report = NoReport /\ analysis = NoAnalysis
           /\ response.status # 500
           /\ response.status = 200
                  => /\ request.hasContent
                     /\ CharLen(request.content) >= MinContentLength
                     /\ response.kind \in {"report", "analysis"}


\* A handler that calls the completion service has answered a valid body
Generated ==
    /\ handler \in {"meta-description", "blog-outline"}
    /\ locals.pc = "done"
    /\ request.method = "POST"
    /\ IF handler = "meta-description" THEN MetaSchemaAccepts(request)
       ELSE ~TopicRejected(request)

\* C12: a meta-description or blog-outline request with a valid body is
\* answered with status 200 whatever the completion service did, and when
\* the call failed (no API key, or all three models failed) the content is
\* the template's: the description starts with "Discover ", the outline is
\* the 4, 5 or 6 template sections starting with "Introduction".
C12_ServiceFailureFallsBack ==
    Generated =>
        /\ response.status = 200
        /\ response.kind = (IF handler = "meta-description" THEN "meta" ELSE "outline")
        /\ (locals.threw /\ handler = "meta-description")
               => /\ SubSeq(response.content, 1, 9) = "Discover "
                  /\ response.length = Len(response.content)
                  /\ response.length <= MaxDescriptionLength
        /\ (locals.threw /\ handler = "blog-outline")
               => /\ Len(response.sections) \in {4, 5, 6}
                  /\ response.sections[1].heading = "Introduction"
                  /\ response.sections
                         = Slice(baseOutline(request.topic), Len(response.sections))

\* C12 witness: all three models were asked and failed, and the handler
\* answered 200.
C12_AllModelsFailed ==
    /\ Generated
    /\ locals.threw
    /\ Len(locals.sent) = Len(models)
    /\ response.status = 200

\* The analysed text is formal and generic and has no personal touch
FormalAndGeneric ==
    /\ Analysed
    /\ RGt(locals.indicators.formalLanguage, Num(7, 10))
    /\ locals.indicators.genericPhrases > 5
    /\ locals.indicators.lackOfPersonalTouches = 0

AiVerdicts == {"Possibly AI-generated", "Very likely AI-generated"}

\* C13, as stated: a text whose formality ratio exceeds 0.7, whose generic
\* phrases are more than 5 and which has no personal touch gets
\* aiProbability >= 50 and one of the two AI verdicts.
C13_FormalGenericIsAI ==
    FormalAndGeneric
        => /\ RGe(analysis.aiProbability, Int2Num(50))
           /\ analysis.verdict \in AiVerdicts

\* C13, amended: such a text gets aiProbability >= 50 and one of the two AI
\* verdicts when it also has no human marker and no conversational element.
C13_FormalGenericUnmarkedIsAI ==
    (/\ FormalAndGeneric
     /\ locals.indicators.humanMarkers = 0
     /\ locals.indicators.conversationalFlow = Int2Num(0))
        => /\ RGe(analysis.aiProbability, Int2Num(50))
           /\ analysis.verdict \in AiVerdicts

\* C13 witness: a formal, generic text with no marker whose other gates are
\* closed was analysed: its score is the 60 of the three open gates.
C13_FormalGenericAtSixty ==
    /\ FormalAndGeneric
    /\ locals.indicators.humanMarkers = 0
    /\ locals.indicators.conversationalFlow = Int2Num(0)
    /\ analysis.aiProbability = Int2Num(60)
    /\ analysis.verdict = "Possibly AI-generated"

Scored == response.kind = "score"

\* The increment of one gate of the claim's table
Gate(open, increment) == IF open THEN Int2Num(increment) ELSE Int2Num(0)

\* C14: before clamping the score is the sum of the gated increments (+15
\* repetition > 3, +20 formality > 0.7, +25 personal touch < 2, +15 grammar
\* perfection > 0.95, +15 generic phrases > 5, +10 sentence variation < 0.3)
\* minus 5 per human marker minus 10 times the conversational flow; a
\* signal on its threshold adds nothing.
C14_ScoreIsSumOfGates ==
    (Scored \/ Analysed) =>
        LET ind == locals.indicators
            sum == RAdd(RAdd(RAdd(Gate(ind.repetitivePatterns > 3, 15),
                                  Gate(RGt(ind.formalLanguage, Num(7, 10)), 20)),
                             RAdd(Gate(ind.lackOfPersonalTouches < 2, 25),
                                  Gate(RGt(ind.perfectGrammar, Num(95, 100)), 15))),
                        RAdd(Gate(ind.genericPhrases > 5, 15),
                             Gate(RLt(ind.sentenceVariation, Num(9, 100)), 10)))
        IN  /\ locals.rawScore
                   = RSub(RSub(sum, RMul(Int2Num(5), Int2Num(ind.humanMarkers))),
                          RMul(Int2Num(10), ind.conversationalFlow))
            /\ (/\ ind.repetitivePatterns = 3
                /\ ind.formalLanguage = Num(7, 10)
                /\ ind.lackOfPersonalTouches = 2
                /\ ind.perfectGrammar = Num(95, 100)
                /\ ind.genericPhrases = 5
                /\ ind.sentenceVariation = Num(9, 100))
                   => RLe(locals.rawScore, Int2Num(0))

\* C14 witness: the score of indicators that are all on their thresholds,
\* with no marker and no flow, was computed: it is 0.
C14_AllOnThreshold ==
    /\ Scored
    /\ locals.indicators.repetitivePatterns = 3
    /\ locals.indicators.formalLanguage = Num(7, 10)
    /\ locals.indicators.lackOfPersonalTouches = 2
    /\ locals.indicators.perfectGrammar = Num(95, 100)
    /\ locals.indicators.genericPhrases = 5
    /\ locals.indicators.sentenceVariation = Num(9, 100)
    /\ locals.indicators.humanMarkers = 0
    /\ locals.indicators.conversationalFlow = Int2Num(0)
    /\ locals.rawScore = Int2Num(0)

\* The six gated signals of two indicator records are the same
SameGatedSignals(a, b) ==
    /\ a.repetitivePatterns = b.repetitivePatterns
    /\ a.formalLanguage = b.formalLanguage
    /\ a.lackOfPersonalTouches = b.lackOfPersonalTouches
    /\ a.perfectGrammar = b.perfectGrammar
    /\ a.genericPhrases = b.genericPhrases
    /\ a.sentenceVariation = b.sentenceVariation

\* The indicators with the scored ones' gated signals and at least their
\* human markers and conversational flow
MoreHuman ==
    {other \in IndicatorGrid :
        /\ SameGatedSignals(other, locals.indicators)
        /\ other.humanMarkers >= locals.indicators.humanMarkers
        /\ RGe(other.conversationalFlow, locals.indicators.conversationalFlow)}

\* C15: with the six gated signals fixed, more human markers or a larger
\* conversational flow never give a higher aiProbability.
C15_MarkersNeverRaise ==
    Scored =>
        \A other \in MoreHuman :
            RLe(Clamp(RawScore(other)), analysis.aiProbability)

\* C15 witness: a score above 0 was computed for indicators with no marker
\* and no flow, and one marker more gives a strictly lower score.
C15_MarkerLowers ==
    /\ Scored
    /\ locals.indicators.humanMarkers = 0
    /\ locals.indicators.conversationalFlow = Int2Num(0)
    /\ \E other \in MoreHuman :
           /\ other.humanMarkers = 1
           /\ RLt(Clamp(RawScore(other)), analysis.aiProbability)

\* The elements of a sequence
Range(seq) == {seq[i] : i \in 1..Len(seq)}

recommendations == analysis.recommendations

\* C16: above 60 the recommendations start with the five generic ones in
\* their order; up to 30 they are the positive messages and hold no
\* improvement advice.
C16_GenericOrPositive ==
    Analysed =>
        /\ RGt(analysis.aiProbability, Int2Num(60))
               => /\ Len(recommendations) >= 5
                  /\ SubSeq(recommendations, 1, 5) = genericBlock
        /\ RLe(analysis.aiProbability, Int2Num(30))
               => /\ Range(positiveBlock) \subseteq Range(recommendations)
                  /\ Range(recommendations) \subseteq Range(positiveBlock)

repetitionAdvice == "Vary sentence starters and paragraph openings"
formalityAdvice == "Replace formal terms with more casual, everyday language"
personalAdvice == "Include more 'I' statements and personal opinions"

\* The recommendations that belong to neither fixed block
SpecificAdvice ==
    Range(recommendations) \ (Range(genericBlock) \cup Range(positiveBlock))

\* The signals of the analysed text that crossed their scoring thresholds
CrossedSignals ==
    LET ind == locals.indicators
    IN  {sig \in {"repetition", "formality", "personalTouch", "grammarPerfection",
                  "genericPhrase", "sentenceVariation"} :
            \/ sig = "repetition" /\ ind.repetitivePatterns > 3
            \/ sig = "formality" /\ RGt(ind.formalLanguage, Num(7, 10))
            \/ sig = "personalTouch" /\ ind.lackOfPersonalTouches < 2
            \/ sig = "grammarPerfection" /\ RGt(ind.perfectGrammar, Num(95, 100))
            \/ sig = "genericPhrase" /\ ind.genericPhrases > 5
            \/ sig = "sentenceVariation" /\ RLt(ind.sentenceVariation, Num(9, 100))}

\* C17: every signal that crossed its scoring threshold has its specific
\* recommendation in the list, and the list has no specific recommendation
\* for anything else: as many specific recommendations as crossed signals,
\* those of repetition, formality and personal touch exactly when their
\* signal crossed.
C17_AdvicePerCrossedSignal ==
    Analysed =>
        /\ ("repetition" \in CrossedSignals) <=> (repetitionAdvice \in SpecificAdvice)
        /\ ("formality" \in CrossedSignals) <=> (formalityAdvice \in SpecificAdvice)
        /\ ("personalTouch" \in CrossedSignals) <=> (personalAdvice \in SpecificAdvice)
        /\ Cardinality(SpecificAdvice) = Cardinality(CrossedSignals)

\* The place of the first occurrence of a word in the token stream
FirstOccurrence(word) ==
    LET words == Tokenize(request.content)
    IN  CHOOSE i \in 1..Len(words) :
            words[i] = word /\ \A j \in 1..(i - 1) : words[j] # word

\* C18: keyword records of equal frequency stand in the order of the first
\* occurrence of their tokens in the token stream, and a token left out of
\* the list with the frequency of a listed one occurs first after it.
C18_TiesByFirstOccurrence ==
    Reported =>
        LET kw == report.keywords
        IN  /\ \A i, j \in 1..Len(kw) :
                   i < j /\ kw[i].frequency = kw[j].frequency
                       => FirstOccurrence(kw[i].word) < FirstOccurrence(kw[j].word)
            /\ \A o \in Omitted : \A k \in 1..Len(kw) :
                   kw[k].frequency = locals.wordCount[o].frequency
                       => FirstOccurrence(kw[k].word)
                              < FirstOccurrence(locals.wordCount[o].word)

\* C18 witness: the cut at 20 records fell inside a group of tokens of one
\* frequency, of which the list keeps more than one.
C18_CutInsideGroup ==
    /\ Reported
    /\ Len(report.keywords) = TopKeywords
    /\ \E o \in Omitted :
           locals.wordCount[o].frequency
               = report.keywords[TopKeywords].frequency
    /\ report.keywords[TopKeywords - 1].frequency
           = report.keywords[TopKeywords].frequency

\* The sum of the densities of a keyword list
RECURSIVE DensitySum(_)
DensitySum(kw) ==
    IF kw = <<>> THEN Int2Num(0) ELSE RAdd(Head(kw).density, DensitySum(Tail(kw)))

\* x is a multiple of 1/100 and no further than 1/200 from y
RoundedToCents(x, y) ==
    /\ IsFinite(x)
    /\ IsInteger(RMul(x, Int2Num(100)))
    /\ RLe(RSub(x, y), Num(1, 200))
    /\ RLe(RSub(y, x), Num(1, 200))

\* C19: avgDensity is the mean of the densities of the returned records,
\* at most 20 of them, rounded to 2 decimals, and topKeywordDensity is the
\* density of the first returned record, or 0 when the list is empty.
C19_MeanOfReturnedRecords ==
    Reported =>
        LET kw == report.keywords
        IN  /\ Len(kw) <= 20
            /\ kw # <<>> =>
                   /\ RoundedToCents(report.avgDensity,
                                     RDiv(DensitySum(kw), Int2Num(Len(kw))))
                   /\ report.topKeywordDensity = kw[1].density
            /\ kw = <<>> => report.topKeywordDensity = Int2Num(0)

\* C19 witness: a report on more than 20 distinct tokens whose avgDensity
\* is not the mean over all distinct tokens, 100 / uniqueKeywords, rounded.
C19_MeanOverAllDiffers ==
    /\ Reported
    /\ report.uniqueKeywords > TopKeywords
    /\ ~RoundedToCents(report.avgDensity,
                       Num(100, report.uniqueKeywords))
    /\ RGt(report.avgDensity, Num(101, report.uniqueKeywords))

\* 100 x frequency / totalWords of a keyword record of the report
ExactDensity(rec) == Num(100 * rec.frequency, report.totalWords)

\* C20: in every keyword record, density equals 100 x frequency /
\* totalWords of the request.
C20_DensityIsRatio ==
    Reported =>
        \A k \in 1..Len(report.keywords) :
            report.keywords[k].density = ExactDensity(report.keywords[k])

\* C20, amended: in every keyword record, density is 100 x frequency /
\* totalWords rounded to 2 decimals; 3 occurrences among 10 tokens give 30
\* and 4 among 10 give 40, both of tier high.
C20_DensityIsRoundedRatio ==
    Reported =>
        \A k \in 1..Len(report.keywords) :
            LET rec == report.keywords[k]
            IN  /\ RoundedToCents(rec.density, ExactDensity(rec))
                /\ report.totalWords = 10 /\ rec.frequency \in {3, 4}
                       => /\ rec.density = Int2Num(10 * rec.frequency)
                          /\ rec.status = "high"

\* C20 witness: a report with a record whose density was changed by the
\* rounding.
C20_RoundingChangedDensity ==
    /\ Reported
    /\ \E k \in 1..Len(report.keywords) :
           report.keywords[k].density # ExactDensity(report.keywords[k])

\* x is a number from 0 to 1
InUnitInterval(x) == RLe(Int2Num(0), x) /\ RLe(x, Int2Num(1))

\* C21: for every content the boundary accepts, formalityRatio,
\* grammarPerfection, sentenceLengthVariation and conversationalFlow lie in
\* [0,1] (none is the NaN of a division by zero) and the repetition,
\* personal-touch, generic-phrase and human-marker counts are non-negative
\* integers.
C21_SignalsInRange ==
    Analysed =>
        LET ind == locals.indicators
        IN  /\ InUnitInterval(ind.formalLanguage)
            /\ InUnitInterval(ind.perfectGrammar)
            /\ InUnitInterval(ind.sentenceVariation)
            /\ InUnitInterval(ind.conversationalFlow)
            /\ ind.repetitivePatterns \in Nat
            /\ ind.lackOfPersonalTouches \in Nat
            /\ ind.genericPhrases \in Nat
            /\ ind.humanMarkers \in Nat

\* The sentences of the analysed text: the pieces between the runs of '.',
\* '!' and '?' that hold a word
TextSentences ==
    SelectSeq(Split(request.content, {".", "!", "?"}),
              LAMBDA piece : \E i \in 1..Len(piece) : IsWord(piece[i]))

\* The first 3 words of a sentence, or all of them when it has fewer,
\* lower-cased
Fingerprint(sentence) ==
    LET words == SelectSeq(SplitWords(ToLowerCase(sentence)), LAMBDA w : w # "")
    IN  SubSeq(words, 1, IF Len(words) < 3 THEN Len(words) ELSE 3)

\* C22: the repetition signal is the number of distinct fingerprints that
\* more than one sentence has, where every sentence gives the fingerprint
\* of its first 3 words lower-cased, also a sentence of three words or
\* fewer.
C22_RepetitionCountsEverySentence ==
    Analysed =>
        LET sentences == TextSentences
            recurring ==
                {i \in 1..Len(sentences) :
                    \E j \in 1..Len(sentences) :
                        j # i /\ Fingerprint(sentences[j]) = Fingerprint(sentences[i])}
        IN  locals.indicators.repetitivePatterns
                = Cardinality({Fingerprint(sentences[i]) : i \in recurring})

\* The imperfections as the specification lists them: a doubled word, a
\* full stop with no space before the next word, a space before a comma, a
\* run of two or more spaces
statedImperfections ==
    << <<  <<W({"and"}), S, W({"and"})>>  >>,
       <<  <<W({"that"}), S, W({"that"})>>  >>,
       <<  <<L({"."}), AnyWordChar>>  >>,
       <<  <<S, L({","})>>  >>,
       <<  <<S2>>  >> >>

\* C23: grammar perfection is (sentenceCount - imperfectionMatches) /
\* sentenceCount, not below 0, where a full stop followed by one space and
\* the next word is no imperfection: a text of correctly spaced sentences
\* with none of the listed patterns has grammar perfection 1.
C23_SpacedSentencesArePerfect ==
    Analysed =>
        LET errors == SumMatches(request.content, statedImperfections)
            totalSentences == Len(Split(request.content, {".", "!", "?"}))
        IN  /\ locals.indicators.perfectGrammar
                   = MathMax(Int2Num(0),
                             Num(totalSentences - errors, totalSentences))
            /\ errors = 0 => locals.indicators.perfectGrammar = Int2Num(1)

\* The lower-case letters and the digits
LowerAlphanumerics ==
    {"a", "b", "c", "d", "e", "f", "g", "h", "i", "j", "k", "l", "m", "n", "o",
     "p", "q", "r", "s", "t", "u", "v", "w", "x", "y", "z",
     "0", "1", "2", "3", "4", "5", "6", "7", "8", "9"}

\* C24: every token the density engine counts, and so every word of the
\* report, is longer than 2 characters and made of lower-case letters and
\* digits only: no punctuation character of the input is inside a token.
C24_TokensAreAlphanumeric ==
    Reported =>
        /\ \A i \in 1..Len(locals.wordCount) :
               LET word == locals.wordCount[i].word
               IN  /\ Len(word) > 2
                   /\ \A k \in 1..Len(word) : Char(word, k) \in LowerAlphanumerics
        /\ \A k \in 1..Len(report.keywords) :
               \E i \in 1..Len(locals.wordCount) :
                   locals.wordCount[i].word = report.keywords[k].word

\* A handler has called the completion service
Called == handler \in ServiceHandlers /\ response.status # 405 /\ locals.prompt # ""

\* The requests of the call that came to the given ends
RequestsThat(ends) ==
    {i \in 1..Len(locals.responses) : locals.responses[i] \in ends}

\* The order of the requests of a call, for given sets of responses that
\* count as a failure and as an ok response: the models are queried in
\* the fixed order, each after the failure of all earlier ones; an ok
\* response ends the call with no further request; the call fails only
\* after three failures; without an API key no request is sent.
ModelsInOrder(failed, ok) ==
    Called =>
        /\ Len(locals.sent) <= 3
        /\ Len(locals.responses) = Len(locals.sent)
        /\ locals.sent = SubSeq(models, 1, Len(locals.sent))
        /\ \A j \in 1..Len(locals.sent) : \A i \in 1..(j - 1) : i \in RequestsThat(failed)
        /\ \A i \in RequestsThat(ok) : i = Len(locals.sent) /\ locals.pc = "done"
        /\ locals.pc = "done" /\ locals.threw /\ locals.apiKey
               => RequestsThat(failed) = 1..3
        /\ locals.pc = "fetch" => RequestsThat(failed) = 1..Len(locals.sent)
        /\ ~locals.apiKey => locals.sent = <<>> /\ locals.pc = "done" /\ locals.threw

\* C25: callHuggingFace queries the models in the order
\* microsoft/DialoGPT-medium, gpt2, distilgpt2, a model only after every
\* earlier one failed by a non-ok response or a thrown error; the first ok
\* response ends the call with no further request; at most three requests
\* are sent; the call fails only after all three failed; no request is
\* sent when no API key is configured.
C25_FirstOkEndsCall ==
    ModelsInOrder({"non-ok", "throws", "unreadable"}, {"ok", "unreadable"})

\* C25, amended: as C25, where the response that ends the call is the first
\* ok response whose body can be read; an ok response whose body cannot be
\* read is a failure, and the next model is queried.
C25_FirstReadableOkEndsCall ==
    ModelsInOrder({"non-ok", "throws", "unreadable"}, {"ok"})

\* C25 witness: the first model answered ok with a body that could not be
\* read, the second answered not ok, and the third model's text was
\* returned.
C25_ThirdModelAnswered ==
    /\ Called
    /\ locals.responses = <<"unreadable", "non-ok", "ok">>
    /\ locals.pc = "done"
    /\ ~locals.threw

\* All six gates of the scored indicators are open
AllGatesFire ==
    LET ind == locals.indicators
    IN  /\ ind.repetitivePatterns > 3
        /\ RGt(ind.formalLanguage, Num(7, 10))
        /\ ind.lackOfPersonalTouches < 2
        /\ RGt(ind.perfectGrammar, Num(95, 100))
        /\ ind.genericPhrases > 5
        /\ RLt(ind.sentenceVariation, Num(9, 100))

\* C26: before clamping the score never exceeds 100, so the upper clamp
\* leaves it as it is: aiProbability is the score, or 0 for a negative
\* one; aiProbability is 100 only when all six gates fire and both
\* humanMarkerCount and conversationalFlow are 0.
C26_ScoreAtMostHundred ==
    (Scored \/ Analysed) =>
        /\ RLe(locals.rawScore, Int2Num(100))
        /\ analysis.aiProbability
               = (IF RLt(locals.rawScore, Int2Num(0)) THEN Int2Num(0)
                  ELSE locals.rawScore)
        /\ analysis.aiProbability = Int2Num(100)
               => /\ AllGatesFire
                  /\ locals.indicators.humanMarkers = 0
                  /\ locals.indicators.conversationalFlow = Int2Num(0)

\* C26 witness: all six gates fired with no marker and no flow, and the
\* score 100 was reported.
C26_FullScore ==
    /\ Scored
    /\ AllGatesFire
    /\ locals.rawScore = Int2Num(100)
    /\ analysis.aiProbability = Int2Num(100)

flowAdvice == "Add more questions, exclamations, and direct reader address"

\* The order of the recommendations: first the generic block, then the
\* advice on repetition, formality, personal touch and conversational
\* flow, the positive messages
adviceOrder ==
    genericBlock
    \o <<repetitionAdvice, formalityAdvice, personalAdvice, flowAdvice>>
    \o positiveBlock

\* The place of a recommendation in that order; 0 for any other text
Place(item) ==
    IF \E p \in 1..Len(adviceOrder) : adviceOrder[p] = item
    THEN CHOOSE p \in 1..Len(adviceOrder) : adviceOrder[p] = item
    ELSE 0

\* C27: the recommendations never hold both the generic block and the
\* positive messages; for 30 < aiProbability <= 60 they hold neither; the
\* order is always the generic block, then the advice on repetition,
\* formality, personal touch and conversational flow, then the positive
\* messages, each block whole or absent.
C27_BlocksExcludeEachOther ==
    (Scored \/ Analysed) =>
        LET recs == recommendations
            generic == Range(recs) \cap Range(genericBlock)
            positive == Range(recs) \cap Range(positiveBlock)
        IN  /\ generic = {} \/ positive = {}
            /\ RGt(analysis.aiProbability, Int2Num(30))
                   /\ RLe(analysis.aiProbability, Int2Num(60))
                   => generic = {} /\ positive = {}
            /\ generic \in {{}, Range(genericBlock)}
            /\ positive \in {{}, Range(positiveBlock)}
            /\ \A i \in 1..Len(recs) : Place(recs[i]) > 0
            /\ \A i, j \in 1..Len(recs) : i < j => Place(recs[i]) < Place(recs[j])

\* C27 witness: a list with the generic block and all four kinds of
\* specific advice behind it.
C27_GenericThenSpecific ==
    /\ Scored
    /\ recommendations
           = genericBlock
             \o <<repetitionAdvice, formalityAdvice, personalAdvice, flowAdvice>>

\* C28: for every aiProbability of [0,100] the confidence Low comes only
\* with the verdict 'Mixed signals', and the verdicts 'Very likely
\* AI-generated' and 'Very likely human-written' come with the confidence
\* High.
C28_VerdictMatchesConfidence ==
    (Classified \/ Analysed) =>
        /\ analysis.confidence = "Low"
               => analysis.verdict = "Mixed signals - uncertain"
        /\ analysis.verdict \in {"Very likely AI-generated",
                                  "Very likely human-written"}
               => analysis.confidence = "High"
        /\ analysis.confidence \in {"Low", "Medium", "High"}

\* C28 witness: a score just above 40 was classified: Mixed signals with
\* the confidence Low.
C28_LowAndMixed ==
    /\ Classified
    /\ RGt(analysis.aiProbability, Int2Num(40))
    /\ RLt(analysis.aiProbability, Int2Num(41))
    /\ analysis.confidence = "Low"
    /\ analysis.verdict = "Mixed signals - uncertain"

\* What the handler that validates by hand, and what the handler and the
\* route that validate with the schema, answer to a POST request
ManualAnswer(req) ==
    IF ManualRejects(req)
    THEN ErrorResponse(400, "Content must be at least 50 characters")
    ELSE ReportResponse(req.content)

SchemaAnswer(req) ==
    IF ~SchemaAccepts(req)
    THEN ErrorResponse(500, "Content must be at least 50 words")
    ELSE ReportResponse(req.content)

\* C29: the keyword-density handler that validates by hand and the one
\* that validates with the schema (which is also the server route) accept
\* the same contents, reject the others with the same status and return
\* the same report for an accepted content: the answer of each to a POST
\* request has the status and the report of the other's answer to it.
C29_HandlersAgree ==
    handler \in AnalysisHandlers /\ handler # "ai-detector" /\ request.method = "POST"
        => LET other == IF handler = "keyword-density-manual"
                        THEN SchemaAnswer(request) ELSE ManualAnswer(request)
           IN  /\ response.status = other.status
               /\ response.report = other.report

\* A blog-outline handler answered with an outline
Outlined ==
    /\ handler \in {"blog-outline", "blog-outline-route"}
    /\ response.kind = "outline"

\* The sections of the template for the topic of the request
TemplatePool == Range(baseOutline(request.topic))

\* The text of the completion has a line that opens a numbered section:
\* digits and a full stop after the line's leading whitespace
HasNumberedLine(text) ==
    LET lines == SplitAt(text, {"\n"})
    IN  \E i \in 1..Len(lines) : NumberedPrefix(TrimString(lines[i])) > 0

\* C30: every successful blog-outline response has at least one section;
\* its sections are the template's exactly when the completion service
\* failed or its text had no numbered section, and then there are 4 of
\* them for short, 5 for medium and 6 for long; otherwise no section is
\* the template's: parsed and template sections are never mixed.
C30_TemplateOrParsed ==
    Outlined =>
        LET sections == response.sections
            fallback == locals.threw \/ ~HasNumberedLine(locals.aiResponse)
        IN  /\ response.status = 200
            /\ Len(sections) >= 1
            /\ fallback =>
                   /\ sections = SubSeq(baseOutline(request.topic), 1, Len(sections))
                   /\ request.length = "short" => Len(sections) = 4
                   /\ request.length = "medium" => Len(sections) = 5
                   /\ request.length = "long" => Len(sections) = 6
                   /\ Len(sections) \in {4, 5, 6}
            /\ ~fallback => Range(sections) \cap TemplatePool = {}

\* C30 witness: the completion service answered with a text that has no
\* numbered section, and the response is the template for long.
C30_UnstructuredCompletion ==
    /\ Outlined
    /\ ~locals.threw
    /\ locals.aiResponse # ""
    /\ request.length = "long"
    /\ Len(response.sections) = 6
    /\ response.sections[6].heading = "Conclusion"

===========================================================================
